---- MODULE Spec2Model ----
(***************************************************************************)
(* A model of the async-on-embedded runtime: the single-threaded executor  *)
(* (block_on / spawn), the ready flags written by wakers and interrupt     *)
(* handlers, the event latch behind wait_for_event, the yield future, a    *)
(* one-shot interrupt driven future (Timer::wait), the waker registry      *)
(* (WakerSet), the mutex and the bounded channel.                          *)
(*                                                                         *)
(* Task 0 is the computation handed to block_on (the "main" task); task    *)
(* t >= 1 is the task stored at index t-1 of the executor's task table.    *)
(* A poll of a task is a sequence of steps of that task (one step per      *)
(* operation it performs) that ends when a future returns Pending.         *)
(* Interrupt handlers may run between any two steps.                       *)
(***************************************************************************)
EXTENDS Integers, Sequences, FiniteSets, TLC

\* Capacity of the task table, of every waker registry and of the channel.
\* The source fixes it to 8 (typenum U8); the model scales it down.
NTASKS == 2
\* Values a block_on computation may return / a mutex may hold.
MaxVal == 2
\* Yields of B in the generalised yield example.
MaxYields == 2
\* Send operations begun in one behaviour.
MaxMsgs == 4
\* Width of usize in bits (32 on the target; the model scales it down).
WordBits == 8
Word == 2 ^ WordBits

Tasks == 0..NTASKS
Vals == 1..MaxVal

VARIABLES
    \* ---- executor (executor.rs) ----
    pc,           \* position of the foreground code
    in_block_on,  \* Executor.in_block_on
    ntasks,       \* length of Executor.tasks
    ready,        \* ready[0]: block_on's local flag; ready[t]: Task.ready
    len,          \* the length snapshot (A) of the current round
    cur,          \* the task being examined or polled
    task_woken,   \* block_on's local task_woken
    val,          \* the value a poll of the main computation returned
    result,       \* the value the last block_on call returned (0: none yet)
    \* ---- platform ----
    event,        \* the event register read by WFE, set by SEV and interrupts
    \* ---- futures owned by the tasks ----
    fut,          \* fut[t]: the future task t is awaiting
    \* ---- one-shot interrupt driver (timer.rs), one device per task ----
    expired,      \* the device's hardware event flag (events_compare)
    unmasked,     \* the device's interrupt is enabled in the NVIC
    WAKER,        \* the driver's static WAKER cell holds a waker
    \* ---- serial driver (serial.rs) and I2C driver (twim.rs) ----
    uarte,        \* RX_WAKER, TX_WAKER (NoTask or the waker's task), the
                  \* UARTE0_UART0 interrupt's NVIC enable, events_endrx/endtx
    twim,         \* WAKER, the TWIM0 interrupt's NVIC enable, events_stopped,
                  \* events_error, events_rxstarted / events_txstarted
    \* ---- mutex (mutex.rs) ----
    locked,       \* Mutex.locked
    guards,       \* guards[t]: MutexGuard values owned by task t (0: main)
    mval,         \* Mutex.value
    tried,        \* the last try_lock call: the flag it found, what it returned
    cancelled,    \* a cancel call of a Lock, until the next operation on the
                  \* mutex: was there one?, had the entry been notified?,
                  \* the tasks woken
    \* ---- waker registries (waker_set.rs) ----
    wakers,       \* wakers.mutex, wakers.send, wakers.recv: Inner
    \* ---- channel (channel.rs) ----
    buffer,       \* Channel.buffer (0: uninitialised slot)
    read,         \* Channel.read
    write,        \* Channel.write
    \* ---- the program run by main() and the tasks ----
    prog,         \* which program runs ("free": any operation at any time)
    ip,           \* ip[a]: next instruction of actor a (-1: main(), t: task t)
    out,          \* the lines printed so far
    \* ---- history of the channel (not program state) ----
    sent,         \* sent[v]: the task that began the send of value v
    accepted,     \* the values the channel accepted, in order
    delivered,    \* the values receivers obtained, in order
    suspended,    \* values whose send returned Pending at least once
    returned,     \* what the last direct try_send / try_recv call returned
                  \* (NoReturn after a call made by a poll of send() / recv())
    \* ---- history variables (not program state) ----
    owed,         \* a wake reached the flag since the task's last poll began
    wakes,        \* how many did (saturates at 2)
    born,         \* born[t]: where task t, not polled yet, was spawned: "idle"
                  \* (outside block_on), "main" / "task" (in such a poll of the
                  \* current round), "next" (in a task's poll, a round ago)
    age,          \* rounds begun since then (saturates at 2)
    roundSeen,    \* tasks examined so far in this round, in order
    roundPolled,  \* tasks polled so far in this round, in order
    sawSet,       \* tasks whose flag the scheduler loaded as set this round
    mainPolled,   \* the main computation was polled in this block_on call
    polledSinceWfe, \* a poll began since wait_for_event last returned
    setSinceWfe,  \* some ready flag was set at some moment since then
    lastMain,     \* outcome of the last poll of the main computation
    started,      \* tasks polled at least once
    entered,      \* block_on has been called at least once
    yld           \* yld[t]: what happened since task t's yield returned Pending

execVars == <<pc, in_block_on, ntasks, ready, len, cur, task_woken, val, result>>
devVars == <<expired, unmasked, WAKER, uarte, twim>>
histVars == <<owed, wakes, born, age, roundSeen, roundPolled, sawSet, mainPolled,
              polledSinceWfe, setSinceWfe, lastMain, started, entered, yld>>
mutexVars == <<locked, guards, mval, tried, cancelled>>
chanVars == <<buffer, read, write>>
chanHist == <<sent, accepted, delivered, suspended, returned>>
syncVars == <<mutexVars, wakers, chanVars, chanHist>>
scriptVars == <<prog, ip, out>>
vars == <<execVars, event, fut, devVars, syncVars, scriptVars, histVars>>

NoTask == 0 - 1
NoKey == 0 - 1
NoFut == [kind |-> "none", flag |-> FALSE, key |-> NoKey, msg |-> 0]
NoReturn == [call |-> "none", res |-> "none", val |-> 0]
Returned(call, res, v) == [call |-> call, res |-> res, val |-> v]
NoCancel == [called |-> FALSE, notified |-> FALSE, woken |-> {}]
NoYield == [on |-> FALSE, set |-> {}, table |-> {}, polled |-> <<>>, rounds |-> 0]

Min(a, b) == IF a < b THEN a ELSE b

\* The tasks that exist: the main computation and the table's entries.
Live == 0..ntasks

(***************************************************************************)
(* History bookkeeping, conjoined to every action after the action has     *)
(* fixed pc', cur', ready' and ntasks'.  W is the set of tasks whose flag  *)
(* received a store of true in the step.                                   *)
(***************************************************************************)
PollStart == pc # "poll" /\ pc' = "poll"
RoundStart == pc = "top" /\ pc' = "load"
LoadStep == pc = "load" /\ (pc' # "load" \/ cur' # cur)
WfeReturn == pc = "wfe" /\ pc' = "top"
Hist(W) ==
    /\ \E begun \in {IF PollStart THEN cur' ELSE NoKey}, idle \in {pc' = "idle" \/ pc = "idle"} :
         /\ owed' = [t \in Tasks |->
                       IF begun = t THEN FALSE ELSE owed[t] \/ t \in W]
         /\ wakes' = [t \in Tasks |->
                        IF begun = t THEN 0
                        ELSE IF t \in W THEN Min(wakes[t] + 1, 2)
                        ELSE wakes[t]]
         /\ born' = [t \in Tasks |->
                       IF begun = t THEN "none"
                       ELSE IF t = ntasks' /\ ntasks' # ntasks
                       THEN (IF pc = "idle" THEN "idle"
                             ELSE IF cur = 0 THEN "main" ELSE "task")
                       ELSE IF RoundStart /\ born[t] = "task" THEN "next"
                       ELSE born[t]]
         /\ age' = [t \in Tasks |->
                      IF begun = t \/ idle THEN 0
                      ELSE IF RoundStart /\ owed[t] THEN Min(age[t] + 1, 2)
                      ELSE age[t]]
    /\ roundSeen' = IF RoundStart \/ pc = "idle" THEN <<>>
                    ELSE IF LoadStep THEN Append(roundSeen, cur)
                    ELSE roundSeen
    /\ roundPolled' = IF RoundStart \/ pc = "idle" THEN <<>>
                      ELSE IF PollStart THEN Append(roundPolled, cur')
                      ELSE roundPolled
    /\ sawSet' = IF RoundStart \/ pc = "idle" THEN {}
                 ELSE IF LoadStep /\ ready[cur] THEN sawSet \cup {cur}
                 ELSE sawSet
    /\ mainPolled' = IF pc = "idle" THEN FALSE
                     ELSE mainPolled \/ (PollStart /\ cur' = 0)
    /\ polledSinceWfe' = IF WfeReturn \/ pc = "idle" THEN FALSE
                         ELSE polledSinceWfe \/ PollStart
    /\ setSinceWfe' = \/ (IF WfeReturn \/ pc = "idle" THEN FALSE ELSE setSinceWfe)
                      \/ \E t \in 0..ntasks' : ready'[t]
    /\ lastMain' = IF pc = "poll" /\ cur = 0 /\ pc' # "poll"
                   THEN (IF pc' = "ret" THEN "ready" ELSE "pending")
                   ELSE IF pc = "idle" THEN "none" ELSE lastMain
    /\ started' = IF PollStart THEN started \cup {cur'} ELSE started
    /\ entered' = (entered \/ pc' = "top")
    /\ \E begun \in {IF PollStart THEN cur' ELSE NoKey},
          yielding \in {IF pc = "poll" /\ pc' # "poll" /\ fut'[cur].kind = "yield"
                        THEN cur ELSE NoKey},
          flagged \in {{u \in 0..ntasks' : ready'[u]}},
          round \in {RoundStart},
          off \in {{t \in Tasks : fut'[t].kind # "yield" \/ pc' = "idle"}} :
         yld' = [t \in Tasks |->
                   IF t \in off THEN NoYield
                   ELSE IF t = yielding
                   THEN [on |-> TRUE, set |-> flagged \ {t},
                         table |-> IF t = 0 THEN 0..ntasks ELSE 0..len,
                         polled |-> <<>>, rounds |-> 0]
                   ELSE IF yld[t].on /\ begun # NoKey /\ begun # t
                   THEN [yld[t] EXCEPT !.polled = Append(@, begun)]
                   ELSE IF yld[t].on /\ round
                   THEN [yld[t] EXCEPT !.rounds = Min(@ + 1, 2)]
                   ELSE yld[t]]

(***************************************************************************)
(* The program.  prog.name = "free" stands for any program: main() and     *)
(* the tasks perform any operation at any time.  The other names are the   *)
(* example programs; Instr(a, i) is instruction i of actor a, where actor  *)
(* -1 is main(), 0 the block_on computation (B), t >= 1 spawned task t.    *)
(***************************************************************************)
Ins(op, label, v, next) == [op |-> op, label |-> label, v |-> v, next |-> next]
Free == [name |-> "free", n |-> 0, k |-> 0]
FortyTwo == 42

\* examples/1-yield.rs, generalised to prog.n spawned tasks A and prog.k
\* yields of B (the example has n = 1, k = 2).
YieldExample(a, i) ==
    IF a = 0 - 1
    THEN IF i <= prog.n THEN Ins("spawn", "", 0, i + 1)
         ELSE IF i = prog.n + 1 THEN Ins("block_on", "", 0, i + 1)
         ELSE Ins("end", "", 0, i)
    ELSE IF a = 0
    THEN IF i <= 2 * prog.k
         THEN (IF i % 2 = 1 THEN Ins("print", "B", 0, i + 1)
                            ELSE Ins("yield", "", 0, i + 1))
         ELSE IF i = 2 * prog.k + 1 THEN Ins("print", "DONE", 0, i + 1)
         ELSE Ins("park", "", 0, i)
    ELSE IF i = 1 THEN Ins("print", "A", 0, 2)
         ELSE Ins("yield", "", 0, 1)

\* examples/3-mutex.rs, with prog.n further spawned tasks that only yield.
MutexExample(a, i) ==
    IF a = 0 - 1
    THEN IF i = 1 THEN Ins("try_lock", "", 0, 2)
         ELSE IF i = 2 THEN Ins("spawn", "move", 0, 3)
         ELSE IF i <= 2 + prog.n THEN Ins("spawn", "", 0, i + 1)
         ELSE IF i = 3 + prog.n THEN Ins("block_on", "", 0, i + 1)
         ELSE Ins("end", "", 0, i)
    ELSE IF a = 0
    THEN IF i = 1 THEN Ins("print", "B-before", 0, 2)
         ELSE IF i = 2 THEN Ins("lock", "", 0, 3)
         ELSE IF i = 3 THEN Ins("print", "B", 1, 4)
         ELSE IF i = 4 THEN Ins("print", "DONE", 0, 5)
         ELSE Ins("park", "", 0, i)
    ELSE IF a = 1
    THEN IF i = 1 THEN Ins("print", "A-before-write", 0, 2)
         ELSE IF i = 2 THEN Ins("write", "", FortyTwo, 3)
         ELSE IF i = 3 THEN Ins("drop_guard", "", 0, 4)
         ELSE IF i = 4 THEN Ins("print", "A-released", 0, 5)
         ELSE IF i = 5 THEN Ins("print", "A-yield", 0, 6)
         ELSE Ins("yield", "", 0, 5)
    ELSE Ins("yield", "", 0, 1)

\* examples/4-channel.rs, with prog.n further spawned tasks that only yield.
\* A print instruction with v = 2 prints the value just received.
ChannelExample(a, i) ==
    IF a = 0 - 1
    THEN IF i <= 1 + prog.n THEN Ins("spawn", "", 0, i + 1)
         ELSE IF i = 2 + prog.n THEN Ins("block_on", "", 0, i + 1)
         ELSE Ins("end", "", 0, i)
    ELSE IF a = 0
    THEN IF i = 1 THEN Ins("print", "B-recv", 0, 2)
         ELSE IF i = 2 THEN Ins("recv", "", 0, 3)
         ELSE IF i = 3 THEN Ins("print", "B", 2, 4)
         ELSE IF i = 4 THEN Ins("print", "DONE", 0, 5)
         ELSE Ins("park", "", 0, i)
    ELSE IF a = 1
    THEN IF i = 1 THEN Ins("print", "A-send", 0, 2)
         ELSE IF i = 2 THEN Ins("send", "", FortyTwo, 3)
         ELSE IF i = 3 THEN Ins("print", "A-after-send", 0, 4)
         ELSE IF i = 4 THEN Ins("print", "A-yield", 0, 5)
         ELSE Ins("yield", "", 0, 4)
    ELSE Ins("yield", "", 0, 1)

\* A program over the channel in which B and task 1 call recv(), task 2
\* sends one value with try_send, and B may abandon its recv() when it is
\* polled again; all of them then yield forever.
CancelExample(a, i) ==
    IF a = 0 - 1
    THEN IF i <= NTASKS THEN Ins("spawn", "", 0, i + 1)
         ELSE IF i = NTASKS + 1 THEN Ins("block_on", "", 0, i + 1)
         ELSE Ins("end", "", 0, i)
    ELSE IF a = 0
    THEN IF i = 1 THEN Ins("recv", "cancel", 0, 2)
         ELSE Ins("yield", "", 0, i)
    ELSE IF a = NTASKS
    THEN IF i = 1 THEN Ins("try_send", "", 1, 2)
         ELSE Ins("yield", "", 0, i)
    ELSE IF i = 1 THEN Ins("recv", "", 0, 2)
         ELSE Ins("yield", "", 0, i)

Instr(a, i) ==
    IF prog.name = "yield" THEN YieldExample(a, i)
    ELSE IF prog.name = "mutex" THEN MutexExample(a, i)
    ELSE IF prog.name = "channel" THEN ChannelExample(a, i)
    ELSE IF prog.name = "cancel" THEN CancelExample(a, i)
    ELSE Ins("any", "", 0, i)

\* Who executes a step of the foreground: main() when no block_on call is
\* active, otherwise the task being polled.
Actor == IF pc = "idle" THEN 0 - 1 ELSE cur
Current == Instr(Actor, ip[Actor])
\* The MutexGuard values of main() and of the block_on computation are
\* counted together, under index 0.
Owner == IF pc = "idle" THEN 0 ELSE cur

\* The step performs operation op; done tells whether the operation is
\* complete (an await is complete when its future returned Ready).
Script(op, done) ==
    IF prog.name = "free" THEN UNCHANGED scriptVars
    ELSE /\ Current.op = op
         /\ ip' = IF done THEN [ip EXCEPT ![Actor] = Current.next] ELSE ip
         /\ UNCHANGED <<prog, out>>

\* History and program bookkeeping of a step of main() or of a task ...
Did(op, done, W) == Script(op, done) /\ Hist(W)
\* ... and of a step of the scheduler loop or of an interrupt handler.
Sched(W) == UNCHANGED scriptVars /\ Hist(W)

\* Mutant of WakeAll: a wake inverts the flag.
WakeToggles(W) == ready' = [t \in Tasks |-> IF t \in W THEN ~ready[t] ELSE ready[t]]

\* wake / wake_by_ref of the waker of task t: store true into its flag.
WakeAll(W) == ready' = [t \in Tasks |-> IF t \in W THEN TRUE ELSE ready[t]]

(***************************************************************************)
(* The executor: Executor::block_on and Executor::spawn.                   *)
(***************************************************************************)
\* Mutant of NextPos: the loop over the table advances by two.
NextPosSkip(c, l) ==
    IF c = 0 THEN [pc |-> "len", cur |-> 0]
    ELSE IF c + 1 < l THEN [pc |-> "load", cur |-> c + 2]
    ELSE [pc |-> "check", cur |-> c]

\* Where the scheduler goes after it is done with task c in a round whose
\* length snapshot is l: after the main task to the snapshot (A); after
\* table index c-1 to index c, or to the end-of-round test.
NextPos(c, l) ==
    IF c = 0 THEN [pc |-> "len", cur |-> 0]
    ELSE IF c < l THEN [pc |-> "load", cur |-> c + 1]
    ELSE [pc |-> "check", cur |-> c]

Goto(p) == pc' = p.pc /\ cur' = p.cur

\* crate::abort(): the program traps and never resumes.  The position
\* records which call trapped: "abort_block_on" (nested block_on),
\* "abort_spawn" (task table full), "abort_task" (a spawned task returned),
\* "abort_insert" (waker registry full), "abort_overflow" (arithmetic
\* overflow in a build with overflow checks).
Aborted == {"abort_block_on", "abort_spawn", "abort_task", "abort_insert",
            "abort_overflow"}
Abort(why) == pc' = why /\ UNCHANGED cur

\* Mutant of BlockOn: the main flag starts false.
BlockOnMainNotReady ==
    /\ pc \in {"idle", "poll"}
    /\ pc = "poll" => fut[cur].kind = "none"
    /\ IF in_block_on
       THEN /\ pc' = "abort_block_on" /\ UNCHANGED cur
            /\ UNCHANGED <<in_block_on, ready, fut>>
       ELSE /\ in_block_on' = TRUE
            /\ ready' = [ready EXCEPT ![0] = FALSE]
            /\ fut' = [fut EXCEPT ![0] = NoFut]
            /\ pc' = "top" /\ cur' = 0
    /\ UNCHANGED <<ntasks, len, task_woken, val, result, event, devVars, syncVars>>
    /\ Did("block_on", TRUE, {})

\* Mutant of BlockOn: a nested call is not detected and starts its own loop.
BlockOnReenters ==
    /\ pc \in {"idle", "poll"}
    /\ pc = "poll" => fut[cur].kind = "none"
    /\ in_block_on' = TRUE
    /\ ready' = [ready EXCEPT ![0] = TRUE]
    /\ fut' = [fut EXCEPT ![0] = NoFut]
    /\ pc' = "top" /\ cur' = 0
    /\ UNCHANGED <<ntasks, len, task_woken, val, result, event, devVars, syncVars>>
    /\ Did("block_on", TRUE, {0})

\* block_on, up to the first iteration of its loop.  Called from main()
\* (pc = "idle") or from inside a poll (pc = "poll": nested).
BlockOn ==
    /\ pc \in {"idle", "poll"}
    /\ pc = "poll" => fut[cur].kind = "none"
    /\ IF in_block_on
       THEN /\ Abort("abort_block_on")
            /\ UNCHANGED <<in_block_on, ready, fut>>
       ELSE /\ in_block_on' = TRUE
            /\ ready' = [ready EXCEPT ![0] = TRUE]
            /\ fut' = [fut EXCEPT ![0] = NoFut]
            /\ pc' = "top" /\ cur' = 0
    /\ UNCHANGED <<ntasks, len, task_woken, val, result, event, devVars, syncVars>>
    /\ Did("block_on", TRUE, IF in_block_on THEN {} ELSE {0})

\* `let mut task_woken = false;`: a round begins.
Top ==
    /\ pc = "top"
    /\ task_woken' = FALSE
    /\ pc' = "load" /\ cur' = 0
    /\ UNCHANGED <<in_block_on, ntasks, ready, len, val, result, event, fut, devVars, syncVars>>
    /\ Sched({})

\* Mutant of Load: the flag is not tested, every task examined is polled.
LoadIgnoresFlag ==
    /\ pc = "load"
    /\ task_woken' = TRUE
    /\ pc' = "store" /\ UNCHANGED cur
    /\ UNCHANGED <<in_block_on, ntasks, ready, len, val, result, event, fut, devVars, syncVars>>
    /\ Sched({})

\* `if ready.load(Acquire) { task_woken = true; ...`
Load ==
    /\ pc = "load"
    /\ IF ready[cur]
       THEN /\ task_woken' = TRUE
            /\ pc' = "store" /\ UNCHANGED cur
       ELSE /\ Goto(NextPos(cur, len))
            /\ UNCHANGED task_woken
    /\ UNCHANGED <<in_block_on, ntasks, ready, len, val, result, event, fut, devVars, syncVars>>
    /\ Sched({})

\* Mutant of Store: the store clears every task's flag.
StoreClearsAll ==
    /\ pc = "store"
    /\ ready' = [t \in Tasks |-> FALSE]
    /\ pc' = "poll" /\ UNCHANGED cur
    /\ UNCHANGED <<in_block_on, ntasks, len, task_woken, val, result, event, fut, devVars, syncVars>>
    /\ Sched({})

\* `ready.store(false, Release)`, then the poll begins.
Store ==
    /\ pc = "store"
    /\ ready' = [ready EXCEPT ![cur] = FALSE]
    /\ pc' = "poll" /\ UNCHANGED cur
    /\ UNCHANGED <<in_block_on, ntasks, len, task_woken, val, result, event, fut, devVars, syncVars>>
    /\ Sched({})

\* Mutant of ReadLen: the length is the one found at the start of the poll
\* of the main computation, so tasks it spawned wait for the next round.
ReadLenBeforeMain ==
    /\ pc = "len"
    /\ len' = IF born[ntasks] = "main" THEN ntasks - 1 ELSE ntasks
    /\ IF len' >= 1 THEN pc' = "load" /\ cur' = 1
                    ELSE pc' = "check" /\ UNCHANGED cur
    /\ UNCHANGED <<in_block_on, ntasks, ready, task_woken, val, result, event, fut, devVars, syncVars>>
    /\ Sched({})

\* (A) `let len = tasks.len()`, and the start of `for i in 0..len`.
ReadLen ==
    /\ pc = "len"
    /\ len' = ntasks
    /\ IF ntasks >= 1 THEN pc' = "load" /\ cur' = 1
                      ELSE pc' = "check" /\ UNCHANGED cur
    /\ UNCHANGED <<in_block_on, ntasks, ready, task_woken, val, result, event, fut, devVars, syncVars>>
    /\ Sched({})

\* Mutant of Check: the executor sleeps after every round.
CheckAlwaysSleeps ==
    /\ pc = "check"
    /\ pc' = "wfe"
    /\ UNCHANGED <<cur, in_block_on, ntasks, ready, len, task_woken, val, result,
                   event, fut, devVars, syncVars>>
    /\ Sched({})

\* Mutant of Check: the executor never sleeps.
CheckNeverSleeps ==
    /\ pc = "check"
    /\ pc' = "top"
    /\ UNCHANGED <<cur, in_block_on, ntasks, ready, len, task_woken, val, result,
                   event, fut, devVars, syncVars>>
    /\ Sched({})

\* `if task_woken { continue }`, else go to sleep.
Check ==
    /\ pc = "check"
    /\ pc' = IF task_woken THEN "top" ELSE "wfe"
    /\ UNCHANGED <<cur, in_block_on, ntasks, ready, len, task_woken, val, result,
                   event, fut, devVars, syncVars>>
    /\ Sched({})

\* wait_for_event (WFE): returns at once, clearing the event register, if
\* the register is set; otherwise the core sleeps until it is set.
WaitForEvent ==
    /\ pc = "wfe"
    /\ event
    /\ event' = FALSE
    /\ pc' = "top"
    /\ UNCHANGED <<cur, in_block_on, ntasks, ready, len, task_woken, val, result,
                   fut, devVars, syncVars>>
    /\ Sched({})

\* Mutant of Return: in_block_on is left set.
ReturnKeepsGuard ==
    /\ pc = "ret"
    /\ result' = val
    /\ pc' = "idle"
    /\ UNCHANGED <<cur, in_block_on, ntasks, ready, len, task_woken, val, event, fut,
                   devVars, syncVars>>
    /\ Sched({})

\* After `break val`: `self.in_block_on.set(false); val`.
Return ==
    /\ pc = "ret"
    /\ in_block_on' = FALSE
    /\ result' = val
    /\ pc' = "idle"
    /\ UNCHANGED <<cur, ntasks, ready, len, task_woken, val, event, fut, devVars, syncVars>>
    /\ Sched({})

\* Mutant of Spawn: on a full table the new task replaces the last entry.
SpawnReplacesLast ==
    /\ pc \in {"idle", "poll"}
    /\ pc = "poll" => fut[cur].kind = "none"
    /\ \E move \in {FALSE, guards[Owner] > 0}, at \in {Min(ntasks + 1, NTASKS)} :
         /\ prog.name # "free" => move = (Current.label = "move")
         /\ ntasks' = at
         /\ ready' = [ready EXCEPT ![at] = TRUE]
         /\ fut' = [fut EXCEPT ![at] = NoFut]
         /\ guards' = IF move
                      THEN [guards EXCEPT ![Owner] = @ - 1, ![at] = @ + 1]
                      ELSE guards
         /\ UNCHANGED <<pc, cur>>
         /\ Did("spawn", TRUE, {at})
    /\ UNCHANGED <<in_block_on, len, task_woken, val, result, event, devVars,
                   locked, mval, tried, cancelled, wakers, chanVars, chanHist>>

\* Executor::spawn with Task::new: push a task whose flag starts true.
\* The spawned future may take a MutexGuard of the spawner with it (move).
Spawn ==
    /\ pc \in {"idle", "poll"}
    /\ pc = "poll" => fut[cur].kind = "none"
    /\ \E move \in {FALSE, guards[Owner] > 0} :
         /\ prog.name # "free" => move = (Current.label = "move")
         /\ IF ntasks = NTASKS
            THEN /\ Abort("abort_spawn")
                 /\ UNCHANGED <<ntasks, ready, fut, guards>>
                 /\ Did("spawn", TRUE, {})
            ELSE /\ ntasks' = ntasks + 1
                 /\ ready' = [ready EXCEPT ![ntasks + 1] = TRUE]
                 /\ fut' = [fut EXCEPT ![ntasks + 1] = NoFut]
                 /\ guards' = IF move
                              THEN [guards EXCEPT ![Owner] = @ - 1,
                                                  ![ntasks + 1] = @ + 1]
                              ELSE guards
                 /\ UNCHANGED <<pc, cur>>
                 /\ Did("spawn", TRUE, {ntasks + 1})
    /\ UNCHANGED <<in_block_on, len, task_woken, val, result, event, devVars,
                   locked, mval, tried, cancelled, wakers, chanVars, chanHist>>

(***************************************************************************)
(* Steps of the task being polled.  A step is enabled only for the task    *)
(* the executor is polling (pc = "poll", cur).  With no future in progress *)
(* the task chooses its next operation; with one in progress the poll      *)
(* continues it.  Pending ends the poll and hands control back to the      *)
(* scheduler loop.                                                         *)
(***************************************************************************)
Running == pc = "poll"
Choosing == Running /\ fut[cur].kind = "none"
Polling(k) == Running /\ fut[cur].kind = k

Pending == Goto(NextPos(cur, len))
StayInPoll == UNCHANGED <<pc, cur>>

\* `X.await`: the future is constructed; its first poll is the next step.
\* Timer::wait first masks the interrupt and resets the compare event.
Await(k) ==
    /\ Choosing
    /\ fut' = [fut EXCEPT ![cur] = [NoFut EXCEPT !.kind = k]]
    /\ StayInPoll

\* r#yield(): `Yield { yielded: false }.await`
StartYield ==
    /\ Await("yield")
    /\ UNCHANGED <<in_block_on, ntasks, ready, len, task_woken, val, result, event,
                   devVars, syncVars>>
    /\ Did("yield", FALSE, {})

\* Mutant of PollYield: the first poll does not wake the caller.
PollYieldNoWake ==
    /\ Polling("yield")
    /\ UNCHANGED <<in_block_on, ntasks, len, task_woken, val, result, devVars, syncVars>>
    /\ IF fut[cur].flag
       THEN /\ fut' = [fut EXCEPT ![cur] = NoFut]
            /\ StayInPoll
            /\ UNCHANGED <<ready, event>>
            /\ Did("yield", TRUE, {})
       ELSE /\ fut' = [fut EXCEPT ![cur].flag = TRUE]
            /\ UNCHANGED ready
            /\ event' = TRUE
            /\ Pending
            /\ Did("yield", FALSE, {})

\* Yield::poll
PollYield ==
    /\ Polling("yield")
    /\ UNCHANGED <<in_block_on, ntasks, len, task_woken, val, result, devVars, syncVars>>
    /\ IF fut[cur].flag
       THEN /\ fut' = [fut EXCEPT ![cur] = NoFut]
            /\ StayInPoll
            /\ UNCHANGED <<ready, event>>
            /\ Did("yield", TRUE, {})
       ELSE /\ fut' = [fut EXCEPT ![cur].flag = TRUE]
            /\ WakeAll({cur})
            /\ event' = TRUE
            /\ Pending
            /\ Did("yield", FALSE, {cur})

\* Timer::wait, before `Wait { .. }.await`: NVIC::mask, events_compare.reset().
StartWait ==
    /\ Await("wait")
    /\ unmasked' = [unmasked EXCEPT ![cur] = FALSE]
    /\ expired' = [expired EXCEPT ![cur] = FALSE]
    /\ UNCHANGED <<in_block_on, ntasks, ready, len, task_woken, val, result, event,
                   WAKER, uarte, twim, syncVars>>
    /\ Did("wait", FALSE, {})

\* Wait::poll; fut.flag is installed_waker.
PollWait ==
    /\ Polling("wait")
    /\ IF expired[cur]
       THEN /\ expired' = [expired EXCEPT ![cur] = FALSE]
            /\ IF fut[cur].flag
               THEN /\ unmasked' = [unmasked EXCEPT ![cur] = FALSE]
                    /\ WAKER' = [WAKER EXCEPT ![cur] = FALSE]
               ELSE UNCHANGED <<unmasked, WAKER>>
            /\ fut' = [fut EXCEPT ![cur] = NoFut]
            /\ StayInPoll
       ELSE /\ IF ~fut[cur].flag
               THEN WAKER' = [WAKER EXCEPT ![cur] = TRUE]
               ELSE UNCHANGED WAKER
            /\ unmasked' = [unmasked EXCEPT ![cur] = TRUE]
            /\ fut' = [fut EXCEPT ![cur].flag = TRUE]
            /\ UNCHANGED expired
            /\ Pending
    /\ UNCHANGED <<in_block_on, ntasks, ready, len, task_woken, val, result, event,
                   uarte, twim, syncVars>>
    /\ Did("wait", expired[cur], {})

\* The main computation completes: `if let Poll::Ready(val) = ... { break val }`
MainReady ==
    /\ Choosing /\ cur = 0
    /\ \E v \in Vals : val' = v
    /\ pc' = "ret" /\ UNCHANGED cur
    /\ UNCHANGED <<in_block_on, ntasks, ready, len, task_woken, result, event, fut,
                   devVars, syncVars>>
    /\ Did("ready", TRUE, {})

\* Mutant of TaskReturns: the poll of a completed task just ends.
TaskReturnsQuietly ==
    /\ Choosing /\ cur # 0
    /\ Pending
    /\ UNCHANGED <<in_block_on, ntasks, ready, len, task_woken, val, result, event,
                   fut, devVars, syncVars>>
    /\ Did("return", TRUE, {})

\* A spawned computation completes: Task::new's wrapper calls abort.
TaskReturns ==
    /\ Choosing /\ cur # 0
    /\ Abort("abort_task")
    /\ UNCHANGED <<in_block_on, ntasks, ready, len, task_woken, val, result, event,
                   fut, devVars, syncVars>>
    /\ Did("return", TRUE, {})

\* hprintln!: the line is appended to the log.  An instruction with v = 1
\* prints the value behind the MutexGuard the task holds, one with v = 2
\* the value the task's recv() returned.
Hprintln ==
    /\ prog.name # "free"
    /\ Choosing
    /\ Current.op = "print"
    /\ Current.v = 1 => guards[cur] > 0
    /\ Current.v = 2 => delivered # <<>>
    /\ out' = Append(out, <<Current.label,
                            IF Current.v = 1 THEN mval
                            ELSE IF Current.v = 2 THEN delivered[Len(delivered)]
                            ELSE 0>>)
    /\ ip' = [ip EXCEPT ![cur] = Current.next]
    /\ UNCHANGED <<prog, execVars, event, fut, devVars, syncVars>>
    /\ Hist({})

(***************************************************************************)
(* The waker registry (WakerSet / Inner).  A registry is a record          *)
(* [entries, notifiable]; entries[k] is Vacant, or Taken (the entry holds  *)
(* None: its waker was taken by a notification), or the task whose waker   *)
(* the entry holds.  The operators return the registry after the call;     *)
(* the notifying ones return [set, woken, notified].  The slab (heapless)  *)
(* is not part of the sources: insert may return any vacant key, and       *)
(* iteration visits the occupied keys in increasing order.                 *)
(***************************************************************************)
Keys == 0..(NTASKS - 1)
Vacant == 0 - 2
Taken == 0 - 1
EmptySet == [entries |-> [k \in Keys |-> Vacant], notifiable |-> 0]
\* Mutant of FreeKeys: a full slab hands out the first key again.
FreeKeysEvicting(w) ==
    IF \A k \in Keys : w.entries[k] # Vacant THEN {0}
    ELSE {k \in Keys : w.entries[k] = Vacant}
FreeKeys(w) == {k \in Keys : w.entries[k] = Vacant}
Occupied(w) == {k \in Keys : w.entries[k] # Vacant}
NoWake(w) == [set |-> w, woken |-> {}, notified |-> FALSE]

\* Inner::insert, given the key the slab returns.
insert(w, k, t) ==
    [entries |-> [w.entries EXCEPT ![k] = t], notifiable |-> w.notifiable + 1]

\* Mutant of remove: the count is decremented whatever the entry held.
remove_always_decrements(w, k) ==
    [entries |-> [w.entries EXCEPT ![k] = Vacant], notifiable |-> w.notifiable - 1]

\* Inner::remove
remove(w, k) ==
    [entries |-> [w.entries EXCEPT ![k] = Vacant],
     notifiable |-> IF w.entries[k] >= 0 THEN w.notifiable - 1 ELSE w.notifiable]

\* Mutant of take: the entry is removed from the registry.
take_and_remove(w, k) ==
    [set |-> [entries |-> [w.entries EXCEPT ![k] = Vacant],
              notifiable |-> w.notifiable - 1],
     woken |-> {w.entries[k]}, notified |-> TRUE]

\* `if let Some(w) = opt_waker.take() { w.wake(); self.notifiable -= 1; ..`
take(w, k) ==
    [set |-> [entries |-> [w.entries EXCEPT ![k] = Taken],
              notifiable |-> w.notifiable - 1],
     woken |-> {w.entries[k]}, notified |-> TRUE]

\* Mutant of notify_from: nothing is woken.
notify_none_from(w, n, k) == NoWake(w)

\* The loop of Inner::notify from key k on.  Both modes stop after the
\* first waker they take; Any also stops at a first entry that holds None.
RECURSIVE notify_from(_, _, _)
notify_from(w, n, k) ==
    IF k = NTASKS THEN NoWake(w)
    ELSE IF w.entries[k] = Vacant THEN notify_from(w, n, k + 1)
    ELSE IF w.entries[k] >= 0 THEN take(w, k)
    ELSE IF n = "Any" THEN NoWake(w)
    ELSE notify_from(w, n, k + 1)

notify(w, n) == notify_from(w, n, 0)
\* Mutant of notify_one: it notifies as notify_any does.
notify_one_as_any(w) == notify_from(w, "Any", 0)
notify_any(w) == notify(w, "Any")
notify_one(w) == notify(w, "One")

\* Mutant of cancel: the entry is removed and nothing else happens.
cancel_only_removes(w, k) == NoWake(remove(w, k))

\* Mutant of cancel: another operation is notified whether or not the
\* removed entry still held its waker.
cancel_always_notifies(w, k) == notify_from(remove(w, k), "One", 0)

\* Inner::cancel: remove the entry; if its waker had been taken, take and
\* wake the first waker left in the registry.
cancel(w, k) ==
    IF w.entries[k] >= 0
    THEN NoWake(remove(w, k))
    ELSE notify_from(remove(w, k), "One", 0)

(***************************************************************************)
(* The mutex.                                                              *)
(***************************************************************************)
\* main() or the task being polled is free to perform an operation.
CanAct == pc = "idle" \/ Choosing

\* Mutant of TryLock: the held flag is not tested.
TryLockIgnoresFlag ==
    /\ CanAct
    /\ locked' = TRUE /\ guards' = [guards EXCEPT ![Owner] = @ + 1]
    /\ tried' = [held |-> locked, guard |-> TRUE]
    /\ cancelled' = NoCancel
    /\ UNCHANGED <<execVars, event, fut, devVars, mval, wakers, chanVars, chanHist>>
    /\ Did("try_lock", TRUE, {})

\* Mutex::try_lock
TryLock ==
    /\ CanAct
    /\ IF ~locked
       THEN locked' = TRUE /\ guards' = [guards EXCEPT ![Owner] = @ + 1]
       ELSE UNCHANGED <<locked, guards>>
    /\ tried' = [held |-> locked, guard |-> ~locked]
    /\ cancelled' = NoCancel
    /\ UNCHANGED <<execVars, event, fut, devVars, mval, wakers, chanVars, chanHist>>
    /\ Did("try_lock", TRUE, {})

\* `*guard = v` (DerefMut of MutexGuard)
Write ==
    /\ CanAct
    /\ guards[Owner] > 0
    /\ \E v \in (IF prog.name = "free" THEN Vals ELSE {Current.v}) : mval' = v
    /\ UNCHANGED <<execVars, event, fut, devVars, locked, guards, tried, cancelled,
                   wakers,
                   chanVars, chanHist>>
    /\ Did("write", TRUE, {})

\* Mutant of DropGuard: the held flag is cleared and nobody is notified.
DropGuardSilent ==
    /\ CanAct
    /\ guards[Owner] > 0
    /\ locked' = FALSE
    /\ guards' = [guards EXCEPT ![Owner] = @ - 1]
    /\ UNCHANGED <<pc, cur, in_block_on, ntasks, len, task_woken, val, result, event,
                   fut, devVars, mval, tried, chanVars, chanHist, wakers, ready>>
    /\ cancelled' = NoCancel
    /\ Did("drop_guard", TRUE, {})

\* Drop for MutexGuard: `locked.set(false); wakers.notify_any()`
DropGuard ==
    /\ CanAct
    /\ guards[Owner] > 0
    /\ locked' = FALSE
    /\ guards' = [guards EXCEPT ![Owner] = @ - 1]
    /\ wakers' = [wakers EXCEPT !.mutex = notify_any(wakers.mutex).set]
    /\ WakeAll(notify_any(wakers.mutex).woken)
    /\ UNCHANGED <<pc, cur, in_block_on, ntasks, len, task_woken, val, result, event,
                   fut, devVars, mval, tried, chanVars, chanHist>>
    /\ cancelled' = NoCancel
    /\ Did("drop_guard", TRUE, notify_any(wakers.mutex).woken)

\* Mutex::lock: `Lock { mutex, opt_key: None }.await`
StartLock ==
    /\ Await("lock")
    /\ UNCHANGED <<in_block_on, ntasks, ready, len, task_woken, val, result, event,
                   devVars, syncVars>>
    /\ Did("lock", FALSE, {})

\* The registry a Lock, Send or Recv poll leaves after `opt_key.take()` and
\* the removal of the key.
Unregistered(w) ==
    IF fut[cur].key # NoKey THEN remove(w, fut[cur].key) ELSE w

\* Lock::poll
PollLock ==
    /\ Polling("lock")
    /\ UNCHANGED <<in_block_on, ntasks, ready, len, task_woken, val, result, event,
                   devVars, mval, chanVars, chanHist>>
    /\ tried' = [held |-> locked, guard |-> ~locked]
    /\ cancelled' = NoCancel
    /\ IF ~locked
       THEN /\ locked' = TRUE
            /\ guards' = [guards EXCEPT ![cur] = @ + 1]
            /\ wakers' = [wakers EXCEPT !.mutex = Unregistered(wakers.mutex)]
            /\ fut' = [fut EXCEPT ![cur] = NoFut]
            /\ StayInPoll
            /\ Did("lock", TRUE, {})
       ELSE /\ UNCHANGED <<locked, guards>>
            /\ IF FreeKeys(Unregistered(wakers.mutex)) = {}
               THEN /\ wakers' = [wakers EXCEPT !.mutex = Unregistered(wakers.mutex)]
                    /\ fut' = [fut EXCEPT ![cur].key = NoKey]
                    /\ Abort("abort_insert")
                    /\ Did("lock", FALSE, {})
               ELSE \E k \in FreeKeys(Unregistered(wakers.mutex)) :
                    /\ wakers' = [wakers EXCEPT
                                    !.mutex = insert(Unregistered(wakers.mutex), k, cur)]
                    /\ fut' = [fut EXCEPT ![cur].key = k]
                    /\ Pending
                    /\ Did("lock", FALSE, {})

\* Drop for Lock: the task, when polled, abandons its suspended lock().
DropLock ==
    /\ Polling("lock")
    /\ LET r == IF fut[cur].key # NoKey THEN cancel(wakers.mutex, fut[cur].key)
                ELSE NoWake(wakers.mutex)
       IN /\ wakers' = [wakers EXCEPT !.mutex = r.set]
          /\ WakeAll(r.woken)
          /\ fut' = [fut EXCEPT ![cur] = NoFut]
          /\ StayInPoll
          /\ cancelled' = IF fut[cur].key # NoKey
                          THEN [called |-> TRUE,
                                notified |-> wakers.mutex.entries[fut[cur].key] = Taken,
                                woken |-> r.woken]
                          ELSE cancelled
          /\ UNCHANGED <<in_block_on, ntasks, len, task_woken, val, result, event,
                         devVars, locked, guards, mval, tried, chanVars, chanHist>>
          /\ Did("drop_lock", TRUE, r.woken)

(***************************************************************************)
(* The channel.  Values sent are numbered 1, 2, ... in the order in which  *)
(* the send operations begin.                                              *)
(***************************************************************************)
\* wrapping_add(1) on a cursor
WrapInc(x) == (x + 1) % Word

\* Mutant of ReadSlot: the slot read lies one further.
ReadSlotNext == (read + 1) % NTASKS

\* Mutant of WriteSlot: the slot written lies one further.
WriteSlotNext == (write + 1) % NTASKS

\* `let cursor = write % cap` and `let cursor = read % cap`
WriteSlot == write % NTASKS
ReadSlot == read % NTASKS

\* Mutant of SendOutcomes: the test is `write <= read + cap`.
SendOutcomesOffByOne ==
    IF read + NTASKS >= Word
    THEN {"panic", IF write <= (read + NTASKS) % Word THEN "ok" ELSE "full"}
    ELSE {IF write <= read + NTASKS THEN "ok" ELSE "full"}

\* Outcomes of the test `write < read + cap` of try_send: the sum may
\* overflow, which panics in a build with overflow checks and wraps in one
\* without.
SendOutcomes ==
    IF read + NTASKS >= Word
    THEN {"panic", IF write < (read + NTASKS) % Word THEN "ok" ELSE "full"}
    ELSE {IF write < read + NTASKS THEN "ok" ELSE "full"}

\* Outcome of the test `write > read` of try_recv.
RecvOutcome == IF write > read THEN "ok" ELSE "empty"

\* The value the next send operation sends.
NextMsg == IF prog.name = "free" THEN Len(sent) + 1 ELSE Current.v

\* Mutant of Accept: the event latch is not signalled.
AcceptNoSignal(v, senders) ==
    /\ buffer' = [buffer EXCEPT ![WriteSlot] = v]
    /\ write' = WrapInc(write)
    /\ wakers' = [wakers EXCEPT !.send = senders,
                                !.recv = notify_one(wakers.recv).set]
    /\ WakeAll(notify_one(wakers.recv).woken)
    /\ UNCHANGED event
    /\ accepted' = Append(accepted, v)
    /\ UNCHANGED <<read, delivered>>

\* try_send(v) when there is room; senders is the sender registry as the
\* caller leaves it.
Accept(v, senders) ==
    /\ buffer' = [buffer EXCEPT ![WriteSlot] = v]
    /\ write' = WrapInc(write)
    /\ wakers' = [wakers EXCEPT !.send = senders,
                                !.recv = notify_one(wakers.recv).set]
    /\ WakeAll(notify_one(wakers.recv).woken)
    /\ event' = TRUE
    /\ accepted' = Append(accepted, v)
    /\ UNCHANGED <<read, delivered>>

\* Mutant of Deliver: no sender is notified.
DeliverNoNotify(receivers) ==
    /\ delivered' = Append(delivered, buffer[ReadSlot])
    /\ read' = WrapInc(read)
    /\ wakers' = [wakers EXCEPT !.recv = receivers]
    /\ UNCHANGED ready
    /\ event' = TRUE
    /\ UNCHANGED <<buffer, write, accepted>>

\* try_recv() when there is a value; receivers is the receiver registry as
\* the caller leaves it.
Deliver(receivers) ==
    /\ delivered' = Append(delivered, buffer[ReadSlot])
    /\ read' = WrapInc(read)
    /\ wakers' = [wakers EXCEPT !.recv = receivers,
                                !.send = notify_one(wakers.send).set]
    /\ WakeAll(notify_one(wakers.send).woken)
    /\ event' = TRUE
    /\ UNCHANGED <<buffer, write, accepted>>

\* Channel::try_send
TrySend ==
    /\ Choosing
    /\ Len(sent) < MaxMsgs
    /\ sent' = Append(sent, cur)
    /\ UNCHANGED <<in_block_on, ntasks, len, task_woken, val, result, fut, devVars,
                   mutexVars, suspended>>
    /\ \E o \in SendOutcomes :
         IF o = "ok"
         THEN /\ Accept(NextMsg, wakers.send)
              /\ returned' = Returned("try_send", "Ok", 0)
              /\ StayInPoll
              /\ Did("try_send", TRUE, notify_one(wakers.recv).woken)
         ELSE /\ IF o = "full"
                 THEN StayInPoll /\ returned' = Returned("try_send", "Err", NextMsg)
                 ELSE Abort("abort_overflow") /\ UNCHANGED returned
              /\ UNCHANGED <<ready, event, wakers, chanVars, accepted, delivered>>
              /\ Did("try_send", TRUE, {})

\* Mutant of TryRecv: the event latch is signalled on an empty channel too.
TryRecvSignalsOnEmpty ==
    /\ Choosing
    /\ UNCHANGED <<in_block_on, ntasks, len, task_woken, val, result, fut, devVars,
                   mutexVars, sent, suspended>>
    /\ StayInPoll
    /\ IF RecvOutcome = "ok"
       THEN /\ Deliver(wakers.recv)
            /\ returned' = Returned("try_recv", "Some", buffer[ReadSlot])
            /\ Did("try_recv", TRUE, notify_one(wakers.send).woken)
       ELSE /\ UNCHANGED <<ready, wakers, chanVars, accepted, delivered>>
            /\ event' = TRUE
            /\ returned' = Returned("try_recv", "None", 0)
            /\ Did("try_recv", TRUE, {})

\* Channel::try_recv
TryRecv ==
    /\ Choosing
    /\ UNCHANGED <<in_block_on, ntasks, len, task_woken, val, result, fut, devVars,
                   mutexVars, sent, suspended>>
    /\ StayInPoll
    /\ IF RecvOutcome = "ok"
       THEN /\ Deliver(wakers.recv)
            /\ returned' = Returned("try_recv", "Some", buffer[ReadSlot])
            /\ Did("try_recv", TRUE, notify_one(wakers.send).woken)
       ELSE /\ UNCHANGED <<ready, event, wakers, chanVars, accepted, delivered>>
            /\ returned' = Returned("try_recv", "None", 0)
            /\ Did("try_recv", TRUE, {})

\* Channel::send: `Send { channel, msg: Some(val), opt_key: None }.await`
StartSend ==
    /\ Choosing
    /\ Len(sent) < MaxMsgs
    /\ sent' = Append(sent, cur)
    /\ fut' = [fut EXCEPT ![cur] = [NoFut EXCEPT !.kind = "send", !.msg = NextMsg]]
    /\ StayInPoll
    /\ UNCHANGED <<in_block_on, ntasks, ready, len, task_woken, val, result, event,
                   devVars, mutexVars, wakers, chanVars, accepted, delivered, suspended,
                   returned>>
    /\ Did("send", FALSE, {})

\* Send::poll
PollSend ==
    /\ Polling("send")
    /\ UNCHANGED <<in_block_on, ntasks, len, task_woken, val, result, devVars,
                   mutexVars, sent>>
    /\ returned' = NoReturn
    /\ \E o \in SendOutcomes :
         IF o = "ok"
         THEN /\ Accept(fut[cur].msg, Unregistered(wakers.send))
              /\ fut' = [fut EXCEPT ![cur] = NoFut]
              /\ StayInPoll
              /\ UNCHANGED suspended
              /\ Did("send", TRUE, notify_one(wakers.recv).woken)
         ELSE /\ UNCHANGED <<ready, event, chanVars, accepted, delivered>>
              /\ suspended' = IF o = "full" THEN suspended \cup {fut[cur].msg}
                                            ELSE suspended
              /\ IF o = "panic"
                 THEN /\ wakers' = [wakers EXCEPT !.send = Unregistered(wakers.send)]
                      /\ fut' = [fut EXCEPT ![cur].key = NoKey]
                      /\ Abort("abort_overflow")
                      /\ Did("send", FALSE, {})
                 ELSE IF FreeKeys(Unregistered(wakers.send)) = {}
                 THEN /\ wakers' = [wakers EXCEPT !.send = Unregistered(wakers.send)]
                      /\ fut' = [fut EXCEPT ![cur].key = NoKey]
                      /\ Abort("abort_insert")
                      /\ Did("send", FALSE, {})
                 ELSE \E k \in FreeKeys(Unregistered(wakers.send)) :
                      /\ wakers' = [wakers EXCEPT
                                      !.send = insert(Unregistered(wakers.send), k, cur)]
                      /\ fut' = [fut EXCEPT ![cur].key = k]
                      /\ Pending
                      /\ Did("send", FALSE, {})

\* Channel::recv: `Recv { channel, opt_key: None }.await`
StartRecv ==
    /\ Await("recv")
    /\ UNCHANGED <<in_block_on, ntasks, ready, len, task_woken, val, result, event,
                   devVars, syncVars>>
    /\ Did("recv", FALSE, {})

\* Recv::poll
PollRecv ==
    /\ Polling("recv")
    /\ UNCHANGED <<in_block_on, ntasks, len, task_woken, val, result, devVars,
                   mutexVars, sent, suspended>>
    /\ returned' = NoReturn
    /\ IF RecvOutcome = "ok"
       THEN /\ Deliver(Unregistered(wakers.recv))
            /\ fut' = [fut EXCEPT ![cur] = NoFut]
            /\ StayInPoll
            /\ Did("recv", TRUE, notify_one(wakers.send).woken)
       ELSE /\ UNCHANGED <<ready, event, chanVars, accepted, delivered>>
            /\ IF FreeKeys(Unregistered(wakers.recv)) = {}
               THEN /\ wakers' = [wakers EXCEPT !.recv = Unregistered(wakers.recv)]
                    /\ fut' = [fut EXCEPT ![cur].key = NoKey]
                    /\ Abort("abort_insert")
                    /\ Did("recv", FALSE, {})
               ELSE \E k \in FreeKeys(Unregistered(wakers.recv)) :
                    /\ wakers' = [wakers EXCEPT
                                    !.recv = insert(Unregistered(wakers.recv), k, cur)]
                    /\ fut' = [fut EXCEPT ![cur].key = k]
                    /\ Pending
                    /\ Did("recv", FALSE, {})

\* The task, when polled, abandons its suspended send(): Send has no Drop
\* implementation, so the key it holds is forgotten and its entry stays in
\* the sender registry; the value it kept is dropped.
DropSend ==
    /\ Polling("send")
    /\ prog.name # "free" => Current.label = "cancel"
    /\ fut' = [fut EXCEPT ![cur] = NoFut]
    /\ StayInPoll
    /\ UNCHANGED <<in_block_on, ntasks, ready, len, task_woken, val, result, event,
                   devVars, syncVars>>
    /\ Did("send", TRUE, {})

\* The task, when polled, abandons its suspended recv(): Recv has no Drop
\* implementation either.
DropRecv ==
    /\ Polling("recv")
    /\ prog.name # "free" => Current.label = "cancel"
    /\ fut' = [fut EXCEPT ![cur] = NoFut]
    /\ StayInPoll
    /\ UNCHANGED <<in_block_on, ntasks, ready, len, task_woken, val, result, event,
                   devVars, syncVars>>
    /\ Did("recv", TRUE, {})

(***************************************************************************)
(* Interrupts.                                                             *)
(***************************************************************************)
Alive == pc \notin Aborted

\* The hardware raises the compare event of the device task t waits on.
HwEvent(t) ==
    /\ Alive
    /\ t \in Live /\ fut[t].kind = "wait" /\ ~expired[t]
    /\ expired' = [expired EXCEPT ![t] = TRUE]
    /\ UNCHANGED <<execVars, event, fut, unmasked, WAKER, uarte, twim, syncVars>>
    /\ Sched({})

\* Mutant of Irq: the handler wakes the task and stays unmasked.
IrqNoMask(t) ==
    /\ Alive
    /\ t \in Live /\ unmasked[t] /\ expired[t]
    /\ event' = TRUE
    /\ UNCHANGED <<pc, in_block_on, ntasks, len, cur, task_woken, val, result, fut,
                   expired, unmasked, WAKER, uarte, twim, syncVars>>
    /\ IF WAKER[t]
       THEN WakeAll({t}) /\ Sched({t})
       ELSE UNCHANGED ready /\ Sched({})

\* The RTC0 handler: wake_by_ref and mask itself if a waker is installed.
\* Taking the exception sets the event register.
Irq(t) ==
    /\ Alive
    /\ t \in Live /\ unmasked[t] /\ expired[t]
    /\ event' = TRUE
    /\ UNCHANGED <<pc, in_block_on, ntasks, len, cur, task_woken, val, result, fut,
                   expired, WAKER, uarte, twim, syncVars>>
    /\ IF WAKER[t]
       THEN /\ WakeAll({t})
            /\ unmasked' = [unmasked EXCEPT ![t] = FALSE]
            /\ Sched({t})
       ELSE /\ UNCHANGED <<ready, unmasked>>
            /\ Sched({})

\* An interrupt of some other peripheral: it wakes no task.
OtherIrq ==
    /\ Alive
    /\ ~event
    /\ event' = TRUE
    /\ UNCHANGED <<execVars, fut, devVars, syncVars>>
    /\ Sched({})

(***************************************************************************)
(* The serial driver (serial.rs): Rx::read and Tx::write_from_ram share    *)
(* the UARTE0_UART0 interrupt; each has its own static waker cell.  Rx and *)
(* Tx are singletons borrowed mutably by read and write, so at most one    *)
(* Read and one Write exist at a time.  fut.flag is State::InProgress and  *)
(* fut.msg the length of the buffer.  A poll runs as one step: the waker   *)
(* cells are written only while the interrupt is masked.                   *)
(***************************************************************************)
Cell(k) == IF k = "rx" THEN "RX_WAKER" ELSE "TX_WAKER"
Other(k) == IF k = "rx" THEN "TX_WAKER" ELSE "RX_WAKER"
End(k) == IF k = "rx" THEN "endrx" ELSE "endtx"

\* Rx::read / Tx::write_from_ram, before `Read { .. }.await`
StartSerial(k) ==
    /\ Choosing
    /\ \A t \in Tasks : fut[t].kind # k
    /\ \E n \in 0..1 : fut' = [fut EXCEPT ![cur] = [NoFut EXCEPT !.kind = k, !.msg = n]]
    /\ StayInPoll
    /\ UNCHANGED <<in_block_on, ntasks, ready, len, task_woken, val, result, event,
                   devVars, syncVars>>
    /\ Did(k, FALSE, {})

\* Read::poll (k = "rx") and Write::poll (k = "tx")
PollSerial(k) ==
    /\ Polling(k)
    /\ IF ~fut[cur].flag /\ fut[cur].msg = 0
       THEN \* State::NotStarted with an empty buffer: nothing to do
            /\ fut' = [fut EXCEPT ![cur] = NoFut]
            /\ StayInPoll
            /\ UNCHANGED uarte
       ELSE IF ~fut[cur].flag
       THEN \* State::NotStarted: reset the event, mask, install the
            \* waker, unmask, start the transfer
            /\ uarte' = [uarte EXCEPT ![End(k)] = FALSE, ![Cell(k)] = cur,
                                      !.unmasked = TRUE]
            /\ fut' = [fut EXCEPT ![cur].flag = TRUE]
            /\ Pending
       ELSE IF uarte[End(k)]
       THEN \* State::InProgress, transfer done: reset the event, mask, take
            \* the waker, unmask if the other waker is installed
            /\ uarte' = [uarte EXCEPT ![End(k)] = FALSE, ![Cell(k)] = NoTask,
                                      !.unmasked = uarte[Other(k)] # NoTask]
            /\ fut' = [fut EXCEPT ![cur] = NoFut]
            /\ StayInPoll
       ELSE \* spurious wake up: re-arm the one-shot interrupt
            /\ uarte' = [uarte EXCEPT !.unmasked = TRUE]
            /\ UNCHANGED fut
            /\ Pending
    /\ UNCHANGED <<in_block_on, ntasks, ready, len, task_woken, val, result, event,
                   expired, unmasked, WAKER, twim, syncVars>>
    /\ Did(k, fut'[cur].kind = "none", {})

\* The UARTE ends a transfer that was started: events_endrx / events_endtx.
UarteEvent(k) ==
    /\ Alive
    /\ \E t \in Live : fut[t].kind = k /\ fut[t].flag
    /\ ~uarte[End(k)]
    /\ uarte' = [uarte EXCEPT ![End(k)] = TRUE]
    /\ UNCHANGED <<execVars, event, fut, expired, unmasked, WAKER, twim, syncVars>>
    /\ Sched({})

\* The UARTE0_UART0 handler: wake_by_ref on each installed waker; mask the
\* interrupt if one ran.  The interrupt is requested while an enabled
\* event (endrx, endtx) is set.
UarteIrq ==
    /\ Alive
    /\ uarte.unmasked /\ (uarte.endrx \/ uarte.endtx)
    /\ event' = TRUE
    /\ UNCHANGED <<pc, in_block_on, ntasks, len, cur, task_woken, val, result, fut,
                   expired, unmasked, WAKER, twim, syncVars>>
    /\ \E W \in {{uarte.RX_WAKER, uarte.TX_WAKER} \ {NoTask}} :
         /\ WakeAll(W)
         /\ uarte' = [uarte EXCEPT !.unmasked = (W = {})]
         /\ Sched(W)

(***************************************************************************)
(* The I2C driver (twim.rs): Twim::read, write_from_ram and                *)
(* write_from_ram_then_read have the same structure; Twim is a singleton   *)
(* borrowed mutably, so at most one of these futures exists at a time.     *)
(***************************************************************************)
\* Twim::read, before `Read { .. }.await`
StartTwim ==
    /\ Await("twim")
    /\ \A t \in Tasks : fut[t].kind # "twim"
    /\ UNCHANGED <<in_block_on, ntasks, ready, len, task_woken, val, result, event,
                   devVars, syncVars>>
    /\ Did("twim", FALSE, {})

\* Read::poll of twim.rs
PollTwim ==
    /\ Polling("twim")
    /\ IF ~fut[cur].flag
       THEN \* State::NotStarted: mask; if a transaction was started and not
            \* finished, stop it and clear its events; start the transfer;
            \* install the waker; unmask
            /\ twim' = [twim EXCEPT
                          !.error = IF twim.xstarted THEN FALSE ELSE @,
                          !.stopped = IF twim.xstarted THEN FALSE ELSE @,
                          !.WAKER = cur, !.unmasked = TRUE]
            /\ fut' = [fut EXCEPT ![cur].flag = TRUE]
            /\ Pending
       ELSE IF twim.error
       THEN \* State::InProgress, events_error set: reset events_stopped and
            \* events_rxstarted, return Err(Error::Src(..))
            /\ twim' = [twim EXCEPT !.stopped = FALSE, !.xstarted = FALSE]
            /\ fut' = [fut EXCEPT ![cur] = NoFut]
            /\ StayInPoll
       ELSE IF twim.stopped
       THEN \* events_stopped set: reset the events, mask, take the waker
            /\ twim' = [twim EXCEPT !.stopped = FALSE, !.xstarted = FALSE,
                                    !.unmasked = FALSE, !.WAKER = NoTask]
            /\ fut' = [fut EXCEPT ![cur] = NoFut]
            /\ StayInPoll
       ELSE \* spurious wake up: re-arm the one-shot interrupt
            /\ twim' = [twim EXCEPT !.unmasked = TRUE]
            /\ UNCHANGED fut
            /\ Pending
    /\ UNCHANGED <<in_block_on, ntasks, ready, len, task_woken, val, result, event,
                   expired, unmasked, WAKER, uarte, syncVars>>
    /\ Did("twim", fut'[cur].kind = "none", {})

\* The TWIM makes progress on a transfer that was started: the transfer
\* begins (rxstarted / txstarted), then stops or fails.
TwimEvent ==
    /\ Alive
    /\ \E t \in Live : fut[t].kind = "twim" /\ fut[t].flag
    /\ \/ ~twim.xstarted /\ twim' = [twim EXCEPT !.xstarted = TRUE]
       \/ ~twim.stopped /\ twim' = [twim EXCEPT !.xstarted = TRUE, !.stopped = TRUE]
       \/ ~twim.error /\ twim' = [twim EXCEPT !.xstarted = TRUE, !.error = TRUE]
    /\ UNCHANGED <<execVars, event, fut, expired, unmasked, WAKER, uarte, syncVars>>
    /\ Sched({})

\* The SPIM0_SPIS0_TWIM0_TWIS0_SPI0_TWI0 handler; the interrupt is
\* requested while an enabled event (error, stopped) is set.
TwimIrq ==
    /\ Alive
    /\ twim.unmasked /\ (twim.stopped \/ twim.error)
    /\ event' = TRUE
    /\ UNCHANGED <<pc, in_block_on, ntasks, len, cur, task_woken, val, result, fut,
                   expired, unmasked, WAKER, uarte, syncVars>>
    /\ IF twim.WAKER # NoTask
       THEN /\ WakeAll({twim.WAKER})
            /\ twim' = [twim EXCEPT !.unmasked = FALSE]
            /\ Sched({twim.WAKER})
       ELSE /\ UNCHANGED <<ready, twim>>
            /\ Sched({})

(***************************************************************************)
(* The executor with tasks that yield, wait for interrupts and spawn.      *)
(***************************************************************************)
InitExec ==
    /\ pc = "idle" /\ in_block_on = FALSE /\ ntasks = 0
    /\ ready = [t \in Tasks |-> FALSE]
    /\ len = 0 /\ cur = 0 /\ task_woken = FALSE /\ val = 0 /\ result = 0
    /\ fut = [t \in Tasks |-> NoFut]
    /\ expired = [t \in Tasks |-> FALSE]
    /\ unmasked = [t \in Tasks |-> FALSE]
    /\ WAKER = [t \in Tasks |-> FALSE]
    /\ uarte = [RX_WAKER |-> NoTask, TX_WAKER |-> NoTask, unmasked |-> FALSE,
                endrx |-> FALSE, endtx |-> FALSE]
    /\ twim = [WAKER |-> NoTask, unmasked |-> FALSE, stopped |-> FALSE,
               error |-> FALSE, xstarted |-> FALSE]
InitHist ==
    /\ owed = [t \in Tasks |-> FALSE]
    /\ wakes = [t \in Tasks |-> 0]
    /\ born = [t \in Tasks |-> "none"]
    /\ age = [t \in Tasks |-> 0]
    /\ roundSeen = <<>> /\ roundPolled = <<>> /\ sawSet = {}
    /\ mainPolled = FALSE /\ polledSinceWfe = FALSE /\ setSinceWfe = FALSE
    /\ lastMain = "none" /\ started = {} /\ entered = FALSE
    /\ yld = [t \in Tasks |-> NoYield]
InitSync ==
    /\ locked = FALSE /\ guards = [t \in Tasks |-> 0] /\ mval = 0
    /\ tried = [held |-> FALSE, guard |-> TRUE]
    /\ cancelled = NoCancel
    /\ wakers = [s \in {"mutex", "send", "recv"} |-> EmptySet]
    /\ buffer = [k \in 0..(NTASKS - 1) |-> 0] /\ read = 0 /\ write = 0
    /\ sent = <<>> /\ accepted = <<>> /\ delivered = <<>> /\ suspended = {}
    /\ returned = NoReturn
InitScript(P) ==
    /\ prog \in P
    /\ ip = [a \in (0 - 1)..NTASKS |-> 1]
    /\ out = <<>>

\* The programs of the executor model: any program that yields, waits for
\* interrupts, spawns and calls block_on; and the yield example.
YieldExamples ==
    {[name |-> "yield", n |-> n, k |-> k] : n \in 1..NTASKS, k \in 1..MaxYields}
Init ==
    /\ InitExec /\ InitHist /\ InitSync
    /\ InitScript({Free} \cup YieldExamples)
    /\ event \in BOOLEAN

Scheduler == Top \/ Load \/ Store \/ ReadLen \/ Check \/ WaitForEvent \/ Return

Next ==
    \/ BlockOn \/ Spawn \/ Scheduler
    \/ StartYield \/ PollYield \/ StartWait \/ PollWait
    \/ MainReady \/ TaskReturns \/ Hprintln
    \/ \E t \in Tasks : HwEvent(t) \/ Irq(t)
    \/ OtherIrq

Spec == Init /\ [][Next]_vars

\* The foreground code keeps executing: the scheduler loop takes its next
\* step and the task being polled takes its next step.  Interrupts and
\* calls made by main() carry no fairness.
TaskStep ==
    \/ StartYield \/ PollYield \/ StartWait \/ PollWait
    \/ MainReady \/ TaskReturns \/ Hprintln
    \/ (Running /\ (BlockOn \/ Spawn))
SpecFair == Spec /\ WF_vars(Scheduler) /\ WF_vars(TaskStep)

(***************************************************************************)
(* The executor with Wait::poll in two steps.  RTC0 has a higher priority  *)
(* than the executor, so its handler may run inside the poll, between      *)
(* NVIC::unmask and the return of Poll::Pending; fut.msg = 1 marks that    *)
(* position.                                                               *)
(***************************************************************************)
\* Wait::poll, `if has_expired()` branch.
PollWaitReady ==
    /\ fut[cur].msg = 0 /\ expired[cur]
    /\ PollWait

\* Wait::poll, else branch up to and including NVIC::unmask.
PollWaitArm ==
    /\ Polling("wait")
    /\ fut[cur].msg = 0 /\ ~expired[cur]
    /\ IF ~fut[cur].flag
       THEN WAKER' = [WAKER EXCEPT ![cur] = TRUE]
       ELSE UNCHANGED WAKER
    /\ unmasked' = [unmasked EXCEPT ![cur] = TRUE]
    /\ fut' = [fut EXCEPT ![cur].flag = TRUE, ![cur].msg = 1]
    /\ StayInPoll
    /\ UNCHANGED <<in_block_on, ntasks, ready, len, task_woken, val, result, event,
                   expired, uarte, twim, syncVars>>
    /\ Did("wait", FALSE, {})

\* Mutant of PollWaitPending: the flag of the task is cleared when its poll
\* returns, as by an executor that clears the flag after the poll.
PollWaitPendingClears ==
    /\ Polling("wait")
    /\ fut[cur].msg = 1
    /\ fut' = [fut EXCEPT ![cur].msg = 0]
    /\ ready' = [ready EXCEPT ![cur] = FALSE]
    /\ Pending
    /\ UNCHANGED <<in_block_on, ntasks, len, task_woken, val, result, event,
                   devVars, syncVars>>
    /\ Did("wait", FALSE, {})

\* Wait::poll, else branch: `Poll::Pending`.
PollWaitPending ==
    /\ Polling("wait")
    /\ fut[cur].msg = 1
    /\ fut' = [fut EXCEPT ![cur].msg = 0]
    /\ Pending
    /\ UNCHANGED <<in_block_on, ntasks, ready, len, task_woken, val, result, event,
                   devVars, syncVars>>
    /\ Did("wait", FALSE, {})

InitIrq ==
    /\ InitExec /\ InitHist /\ InitSync
    /\ InitScript({Free})
    /\ event \in BOOLEAN

NextIrq ==
    \/ BlockOn \/ Spawn \/ Scheduler
    \/ StartWait \/ PollWaitReady \/ PollWaitArm \/ PollWaitPending
    \/ MainReady \/ TaskReturns
    \/ \E t \in Tasks : HwEvent(t) \/ Irq(t)
    \/ OtherIrq

SpecIrq == InitIrq /\ [][NextIrq]_vars

(***************************************************************************)
(* The executor with tasks that use the timer, serial and I2C drivers.     *)
(***************************************************************************)
InitDrivers ==
    /\ InitExec /\ InitHist /\ InitSync
    /\ InitScript({Free})
    /\ event \in BOOLEAN

\* Timer is a singleton and wait borrows it mutably: one Wait at a time.
DriverStep ==
    \/ ((\A t \in Tasks : fut[t].kind # "wait") /\ StartWait) \/ PollWait
    \/ \E k \in {"rx", "tx"} : StartSerial(k) \/ PollSerial(k)
    \/ StartTwim \/ PollTwim

Hardware ==
    \/ \E t \in Tasks : HwEvent(t) \/ Irq(t)
    \/ \E k \in {"rx", "tx"} : UarteEvent(k)
    \/ UarteIrq \/ TwimEvent \/ TwimIrq

\* The main computation never completes (`loop { .. }`, as in the
\* examples that use the drivers), so block_on does not return.
NextDrivers ==
    \/ (pc = "idle" /\ (BlockOn \/ Spawn))
    \/ Top \/ Load \/ Store \/ ReadLen \/ Check \/ WaitForEvent
    \/ DriverStep
    \/ Hardware

SpecDrivers == InitDrivers /\ [][NextDrivers]_vars

(***************************************************************************)
(* The executor with tasks that use the I2C driver and a main computation  *)
(* that completes.                                                         *)
(***************************************************************************)
NextTwim ==
    \/ BlockOn \/ Spawn \/ Scheduler
    \/ StartTwim \/ PollTwim
    \/ MainReady
    \/ TwimEvent \/ TwimIrq

SpecTwim == InitDrivers /\ [][NextTwim]_vars

(***************************************************************************)
(* The single-hart RISC-V port (feature riscv-wait-wfi-single-hart of      *)
(* lib.rs): the latch is the static TASK_READY, held in `event`;           *)
(* signal_event_ready stores true into it.  Position "wfi": the hart       *)
(* executes wfi and stalls until an interrupt is taken.  Interrupt         *)
(* handlers do not touch TASK_READY.                                       *)
(***************************************************************************)
\* wait_for_event: `if !TASK_READY { wfi(); TASK_READY = false; }`, up to
\* the wfi instruction.
WaitForEventRiscv ==
    /\ pc = "wfe"
    /\ pc' = IF event THEN "top" ELSE "wfi"
    /\ UNCHANGED <<cur, in_block_on, ntasks, ready, len, task_woken, val, result,
                   event, fut, devVars, syncVars>>
    /\ Sched({})

\* After the handler of an interrupt taken during wfi returns, the rest of
\* wait_for_event runs: `TASK_READY = false`.
Resume ==
    IF pc = "wfi" THEN pc' = "top" /\ event' = FALSE
    ELSE UNCHANGED <<pc, event>>

\* The handler of the one-shot interrupt of task t's device.
IrqRiscv(t) ==
    /\ Alive
    /\ t \in Live /\ unmasked[t] /\ expired[t]
    /\ Resume
    /\ UNCHANGED <<in_block_on, ntasks, len, cur, task_woken, val, result, fut,
                   expired, WAKER, uarte, twim, syncVars>>
    /\ IF WAKER[t]
       THEN /\ WakeAll({t})
            /\ unmasked' = [unmasked EXCEPT ![t] = FALSE]
            /\ Sched({t})
       ELSE /\ UNCHANGED <<ready, unmasked>>
            /\ Sched({})

\* An interrupt of some other peripheral, taken during wfi.
OtherIrqRiscv ==
    /\ pc = "wfi"
    /\ Resume
    /\ UNCHANGED <<in_block_on, ntasks, ready, len, cur, task_woken, val, result,
                   fut, devVars, syncVars>>
    /\ Sched({})

InitRiscv ==
    /\ InitExec /\ InitHist /\ InitSync
    /\ InitScript({Free})
    /\ event = FALSE

NextRiscv ==
    \/ (pc = "idle" /\ (BlockOn \/ Spawn))
    \/ Top \/ Load \/ Store \/ ReadLen \/ Check \/ WaitForEventRiscv
    \/ StartYield \/ PollYield \/ StartWait \/ PollWait
    \/ \E t \in Tasks : HwEvent(t) \/ IrqRiscv(t)
    \/ OtherIrqRiscv

SpecRiscv == InitRiscv /\ [][NextRiscv]_vars

(***************************************************************************)
(* The executor with tasks that share a mutex and yield.                   *)
(***************************************************************************)
MutexExamples == {[name |-> "mutex", n |-> n, k |-> 0] : n \in 0..(NTASKS - 1)}
InitMutex ==
    /\ InitExec /\ InitHist /\ InitSync
    /\ InitScript({Free} \cup MutexExamples)
    /\ event \in BOOLEAN

NextMutex ==
    \/ BlockOn \/ Spawn \/ Scheduler
    \/ StartYield \/ PollYield
    \/ TryLock \/ Write \/ DropGuard \/ StartLock \/ PollLock \/ DropLock
    \/ MainReady \/ Hprintln
    \/ OtherIrq

SpecMutex == InitMutex /\ [][NextMutex]_vars

(***************************************************************************)
(* The mutex model with wakers cloned out of the registry.  A future may   *)
(* clone the waker its poll receives and keep the clone anywhere; the      *)
(* holder of a clone of task t's waker, an interrupt handler or the code   *)
(* of a task being polled, calls wake or wake_by_ref on it.  The flag of   *)
(* the block_on computation is a local of block_on: its waker is used only *)
(* while that call runs.  The block_on computation never completes.       *)
(***************************************************************************)
\* VTABLE.wake / VTABLE.wake_by_ref on a clone of the waker of task t.
\* Taking an exception sets the event register; a store by thread code
\* does not.
WakeClone(t) ==
    /\ Alive
    /\ t \in started /\ t \in Live
    /\ t = 0 => in_block_on /\ mainPolled
    /\ wakes[t] < 2
    /\ \/ event' = TRUE
       \/ Running /\ event' = event
    /\ WakeAll({t})
    /\ UNCHANGED <<pc, in_block_on, ntasks, len, cur, task_woken, val, result, fut,
                   devVars, syncVars>>
    /\ Sched({t})

NextWake ==
    \/ BlockOn \/ Spawn
    \/ Top \/ Load \/ Store \/ ReadLen \/ Check \/ WaitForEvent
    \/ StartYield \/ PollYield
    \/ TryLock \/ DropGuard \/ StartLock \/ PollLock \/ DropLock
    \/ \E t \in Tasks : WakeClone(t)

InitWake ==
    /\ InitExec /\ InitHist /\ InitSync
    /\ InitScript({Free})
    /\ event \in BOOLEAN

SpecWake == InitWake /\ [][NextWake]_vars

(***************************************************************************)
(* The executor with tasks that communicate over a channel.                *)
(***************************************************************************)
\* The programs of the channel model: any program whose tasks perform
\* channel operations, and the channel example, whose task A also yields.
ChannelExamples == {[name |-> "channel", n |-> n, k |-> 0] : n \in 0..(NTASKS - 1)}
InitChan ==
    /\ InitExec /\ InitHist /\ InitSync
    /\ InitScript({Free} \cup ChannelExamples)
    /\ event \in BOOLEAN

ExampleYield == prog.name # "free" /\ (StartYield \/ PollYield)

NextChan ==
    \/ BlockOn \/ Spawn \/ Scheduler
    \/ TrySend \/ TryRecv \/ StartSend \/ PollSend \/ StartRecv \/ PollRecv
    \/ MainReady \/ ExampleYield \/ Hprintln
    \/ OtherIrq

SpecChan == InitChan /\ [][NextChan]_vars

\* The channel after many transfers: it is empty and both cursors, which
\* only ever advance, stand at most MaxMsgs short of the largest usize.  The
\* slots hold values of transfers that are over (0), and the histories
\* count from here.
NearWrap == (Word - MaxMsgs)..(Word - 1)
InitWrap ==
    /\ InitExec /\ InitHist
    /\ locked = FALSE /\ guards = [t \in Tasks |-> 0] /\ mval = 0
    /\ tried = [held |-> FALSE, guard |-> TRUE]
    /\ cancelled = NoCancel
    /\ wakers = [s \in {"mutex", "send", "recv"} |-> EmptySet]
    /\ buffer = [k \in 0..(NTASKS - 1) |-> 0]
    /\ read \in NearWrap /\ write = read
    /\ sent = <<>> /\ accepted = <<>> /\ delivered = <<>> /\ suspended = {}
    /\ returned = NoReturn
    /\ InitScript({Free} \cup ChannelExamples)
    /\ event \in BOOLEAN

SpecWrap == InitWrap /\ [][NextChan]_vars

\* The foreground code keeps executing: the scheduler loop takes its next
\* step and the task being polled takes its next step.
ChanTaskStep ==
    Running /\ (\/ BlockOn \/ Spawn
                \/ TrySend \/ TryRecv \/ StartSend \/ PollSend \/ StartRecv \/ PollRecv
                \/ MainReady \/ ExampleYield \/ Hprintln)
SpecChanFair == SpecChan /\ WF_vars(Scheduler) /\ WF_vars(ChanTaskStep)

\* The channel model with tasks that may abandon a send() or recv().
CancelExamples == {[name |-> "cancel", n |-> 0, k |-> 0]}
InitChanDrop ==
    /\ InitExec /\ InitHist /\ InitSync
    /\ InitScript({Free} \cup ChannelExamples \cup CancelExamples)
    /\ event \in BOOLEAN
NextChanDrop == NextChan \/ DropSend \/ DropRecv
SpecChanDrop == InitChanDrop /\ [][NextChanDrop]_vars

(***************************************************************************)
(* The executor with tasks that use the channel and the mutex.             *)
(***************************************************************************)
\* The programs are those of the channel model and those of the mutex
\* model: a program uses one of the two objects.
FreeMutex == [name |-> "free", n |-> 1, k |-> 0]
UsesMutex == prog = FreeMutex \/ prog.name = "mutex"
InitBoth ==
    /\ InitExec /\ InitHist /\ InitSync
    /\ InitScript({Free, FreeMutex} \cup ChannelExamples \cup MutexExamples)
    /\ event \in BOOLEAN
NextSync == (~UsesMutex /\ NextChan) \/ (UsesMutex /\ NextMutex)
SpecSync == InitBoth /\ [][NextSync]_vars

(***************************************************************************)
(* Helpers for the properties.                                             *)
(***************************************************************************)
Range(q) == {q[i] : i \in 1..Len(q)}
Increasing(q) == \A i \in 1..Len(q) : \A j \in 1..Len(q) : i < j => q[i] < q[j]
\* The sequence 0, 1, ..., n-1.
Upto(n) == [i \in 1..n |-> i - 1]
IsPrefix(p, q) == Len(p) <= Len(q) /\ \A i \in 1..Len(p) : p[i] = q[i]
Count(x, q) == Cardinality({i \in 1..Len(q) : q[i] = x})
RECURSIVE Repeat(_, _)
Repeat(q, n) == IF n = 0 THEN <<>> ELSE q \o Repeat(q, n - 1)
Line(label) == <<label, 0>>

(***************************************************************************)
(* C1.  No lost wakes: once a wake has stored true into a task's flag      *)
(* (during the task's poll or after it returned Pending) the flag stays    *)
(* set until the store that directly precedes the task's next poll, and    *)
(* that poll begins before a second scheduling round begins; for the main  *)
(* computation and for every spawned task.                                 *)
(***************************************************************************)
C1_NoLostWake ==
    \A t \in Live : owed[t] /\ Alive => ready[t] /\ age[t] <= 1

\* A spawned task woken by its interrupt was carried into the next round
\* and the scheduler is about to clear its flag and poll it.
C1_Witness ==
    \E t \in 1..ntasks :
        pc = "store" /\ cur = t /\ owed[t] /\ age[t] = 1 /\ fut[t].kind = "wait"

(***************************************************************************)
(* C2.  With an event register that an interrupt and signal_event_ready    *)
(* set and that only wait_for_event clears, the executor is never at       *)
(* wait_for_event with the register clear while a ready flag is set; and,  *)
(* if every poll returns, a flag that is set while block_on runs leads to  *)
(* the scheduler clearing it to poll its task (or to block_on ending).     *)
(***************************************************************************)
InLoop == pc \in {"top", "load", "store", "poll", "len", "check", "wfe"}
C2_NeverAsleepWhileReady ==
    pc = "wfe" /\ (\E t \in Live : ready[t]) => event

C2_ReadyLeadsToPoll ==
    /\ []C2_NeverAsleepWhileReady
    /\ ([]<>(pc # "poll")) =>
          \A t \in Tasks :
             (InLoop /\ t \in Live /\ ready[t]) ~> ((pc = "store" /\ cur = t) \/ ~InLoop)

\* The interrupt of task 1 fired after the scheduler had examined task 1
\* in a round without polls: the executor is at wait_for_event with the
\* flag set and the event register set.
C2_Witness ==
    /\ pc = "wfe" /\ ready[1] /\ event /\ fut[1].kind = "wait" /\ ~unmasked[1]
    /\ roundSeen = Upto(len + 1) /\ roundPolled = <<>>

(***************************************************************************)
(* C3.  Round-robin order: in every round the tasks are examined in the    *)
(* order main, table index 0, 1, ...; the tasks polled in a round are      *)
(* polled in that order, none twice; at the end of a round every task of   *)
(* the snapshot was examined and exactly those found set were polled.      *)
(***************************************************************************)
C3_RoundRobin ==
    /\ IsPrefix(roundSeen, Upto(NTASKS + 1))
    /\ Increasing(roundPolled)
    /\ Range(roundPolled) \subseteq Range(roundSeen) \cup {cur}
    /\ pc \in {"check", "wfe"} =>
          /\ roundSeen = Upto(len + 1)
          /\ Range(roundPolled) = sawSet
          /\ (sawSet = 0..len => roundPolled = Upto(len + 1))

\* A round ended in which the main task and both table entries were polled.
C3_Witness ==
    pc = "check" /\ len = 2 /\ roundPolled = <<0, 1, 2>>

(***************************************************************************)
(* C4.  block_on leaves its loop only when a poll of the main computation  *)
(* returned Ready, right after that poll; it returns that poll's value     *)
(* and clears in_block_on, so that a call from main() never aborts.        *)
(***************************************************************************)
C4_BlockOnReturns ==
    /\ pc = "ret" => /\ lastMain = "ready"
                     /\ roundPolled # <<>>
                     /\ roundPolled[Len(roundPolled)] = 0
    /\ lastMain = "pending" => pc \notin {"ret", "idle"}
    /\ lastMain = "ready" => pc \in {"ret", "idle"}
    /\ pc = "idle" => ~in_block_on /\ result = val
    /\ pc = "abort_block_on" => in_block_on /\ lastMain # "ready"

\* A second block_on call, made after one returned, polls a task spawned
\* before the first call returned.
C4_Witness ==
    result # 0 /\ pc = "poll" /\ cur = 1 /\ in_block_on

(***************************************************************************)
(* C5.  Sleep policy: block_on reaches wait_for_event only at the end of   *)
(* a complete round in which nothing was polled; a round in which          *)
(* something was polled is followed directly by the next round; and no     *)
(* poll begins after a return of wait_for_event unless some ready flag     *)
(* was set at some moment since that return.                               *)
(***************************************************************************)
C5_SleepInv ==
    /\ pc = "wfe" => roundPolled = <<>> /\ roundSeen = Upto(len + 1)
    /\ polledSinceWfe => setSinceWfe

C5_SleepPolicy ==
    /\ []C5_SleepInv
    /\ [][pc = "check" /\ pc' # pc =>
             IF roundPolled = <<>> THEN pc' = "wfe" ELSE pc' = "top"]_vars

\* The executor returned from wait_for_event, found nothing set and is
\* back at wait_for_event without having polled.
C5_Witness ==
    pc = "wfe" /\ ~polledSinceWfe /\ ~setSinceWfe /\ len = 2 /\ result = 0 /\ started # {}

(***************************************************************************)
(* C6.  The first poll of yield().await returns Pending with the caller's  *)
(* own flag set, and the flag stays set until the caller's next poll; the  *)
(* second poll returns Ready; exactly one round begins between the two     *)
(* polls; between them no other task is polled twice, and every other task *)
(* that was in the round's table snapshot and whose flag was set when the  *)
(* first poll returned is polled exactly once, while a task spawned after  *)
(* the snapshot is not polled.  In the yield example with                  *)
(* n spawned tasks A and k yields of B the log is a prefix of              *)
(* (B, A x n) x k, DONE; for n = 1, k = 2: B, A, B, A, DONE.               *)
(***************************************************************************)
SecondPoll(y) == pc = "poll" /\ cur = y /\ yld[y].on
ExpectedYield(n, k) ==
    Repeat(<<Line("B")>> \o [i \in 1..n |-> Line("A")], k) \o <<Line("DONE")>>

C6_YieldInv ==
    /\ \A y \in Live :
          fut[y].kind = "yield" /\ fut[y].flag /\ ~(pc = "poll" /\ cur = y)
             => ready[y]
    /\ \A y \in Live : yld[y].on =>
          /\ yld[y].rounds <= 1
          /\ \A t \in Tasks : Count(t, yld[y].polled) <= 1
    /\ \A y \in Live : SecondPoll(y) =>
          /\ yld[y].rounds = 1
          /\ \A t \in yld[y].set \cap yld[y].table : Count(t, yld[y].polled) = 1
          /\ \A t \in Tasks \ yld[y].table : Count(t, yld[y].polled) = 0
    /\ prog.name = "yield" => IsPrefix(out, ExpectedYield(prog.n, prog.k))

C6_Yield ==
    /\ []C6_YieldInv
    /\ [][\A y \in Tasks : SecondPoll(y) /\ fut'[y] # fut[y]
               => fut'[y] = NoFut /\ pc' = "poll" /\ cur' = y]_vars

\* The statement as written: every other task whose flag was set when the
\* first poll returned is polled exactly once between the two polls.
C6_EveryFlaggedTaskPolledOnce ==
    \A y \in Live : SecondPoll(y) =>
        \A t \in yld[y].set : Count(t, yld[y].polled) = 1

\* The yield example ran to DONE.
C6_Witness ==
    /\ prog = [name |-> "yield", n |-> 1, k |-> 2]
    /\ out = <<Line("B"), Line("A"), Line("B"), Line("A"), Line("DONE")>>

(***************************************************************************)
(* C7.  A spawned task is polled only inside block_on, never before the    *)
(* first block_on call, and in each block_on call only after the main      *)
(* computation's first poll of that call.                                  *)
(***************************************************************************)
C7_SpawnedWaitForBlockOn ==
    /\ pc \in {"store", "poll"} => in_block_on
    /\ pc \in {"store", "poll"} /\ cur # 0 => mainPolled
    /\ started # {} => entered
    /\ ~entered => \A t \in 1..ntasks : ready[t] /\ fut[t] = NoFut

\* First poll of a task that was spawned before block_on was called.
C7_Witness ==
    pc = "poll" /\ cur = 1 /\ fut[1] = NoFut /\ 1 \in started /\ mainPolled
    /\ fut[0].kind = "yield"

(***************************************************************************)
(* C8.  At most one MutexGuard exists; the held flag is true exactly while *)
(* a guard exists; every try_lock call (direct, or made by a poll of       *)
(* lock()) returns a guard exactly when it found the held flag false; and  *)
(* a guard comes into existence only in a step that finds the flag false   *)
(* and sets it.                                                            *)
(***************************************************************************)
RECURSIVE GuardsUpTo(_, _)
GuardsUpTo(g, n) == IF n < 0 THEN 0 ELSE g[n] + GuardsUpTo(g, n - 1)
TotalGuards == GuardsUpTo(guards, NTASKS)

C8_ExclusiveInv ==
    /\ TotalGuards <= 1
    /\ locked <=> TotalGuards = 1
    /\ tried.guard <=> ~tried.held

C8_Exclusive ==
    /\ []C8_ExclusiveInv
    /\ [][GuardsUpTo(guards', NTASKS) > TotalGuards => ~locked /\ locked']_vars

\* A try_lock call failed on a mutex whose guard is held by a spawned
\* task, while another task is suspended in lock().
C8_Witness ==
    /\ tried = [held |-> TRUE, guard |-> FALSE]
    /\ locked /\ guards[1] = 1 /\ Choosing /\ cur = 2
    /\ fut[0].kind = "lock" /\ fut[0].key # NoKey

(***************************************************************************)
(* C9.  A poll of lock() that finds the mutex held returns Pending with    *)
(* the caller registered in the mutex's registry (or traps because the     *)
(* registry is full); a poll of lock() returns Pending only if the mutex   *)
(* is held.  A guard drop stores true into the flag of at most one task,   *)
(* a registered waiter, and after the drop some registered waiter (if      *)
(* there is one) has its flag set; the woken task is polled before a       *)
(* second round begins.  In the mutex example the log is a prefix of       *)
(* B-before, A-before-write, A-released, A-yield, B-42, DONE.              *)
(***************************************************************************)
Waiters == {t \in Live : fut[t].kind = "lock" /\ fut[t].key # NoKey}
ExpectedMutex ==
    <<Line("B-before"), Line("A-before-write"), Line("A-released"),
      Line("A-yield"), <<"B", FortyTwo>>, Line("DONE")>>

C9_HandoffInv ==
    /\ \A t \in Waiters :
          wakers.mutex.entries[fut[t].key] \in {t, Taken}
    /\ \A t \in Live : owed[t] /\ Alive => ready[t] /\ age[t] <= 1
    /\ prog.name = "mutex" => IsPrefix(out, ExpectedMutex)

\* A step of a poll of lock() that finds the mutex held and keeps the future.
C9_HeldStep ==
    (Polling("lock") /\ locked /\ fut'[cur] # NoFut
        /\ (fut'[cur] # fut[cur] \/ pc' # pc))
    => (\/ pc' = "abort_insert"
        \/ /\ pc' # "poll"
           /\ fut'[cur].key \in Keys
           /\ wakers'.mutex.entries[fut'[cur].key] = cur
           /\ guards' = guards)

\* A poll of lock() returns Pending only if the mutex is held.
C9_PendingStep ==
    (Polling("lock") /\ pc' # "poll") => locked

\* A step that drops the guard.
C9_DropStep ==
    (GuardsUpTo(guards', NTASKS) < TotalGuards)
    => (/\ Cardinality({t \in Tasks : ready'[t] /\ ~ready[t]}) <= 1
        /\ {t \in Tasks : ready'[t] /\ ~ready[t]} \subseteq Waiters
        /\ (Waiters # {} => \E t \in Waiters : ready'[t]))

InFlight == [i \in 1..(write - read) |-> buffer[(read + i - 1) % NTASKS]]
SameSenderInOrder(q) ==
    \A i \in 1..Len(q) : \A j \in 1..Len(q) :
        i < j /\ sent[q[i]] = sent[q[j]] => q[i] < q[j]

C10_Fifo ==
    /\ delivered \o InFlight = accepted
    /\ SameSenderInOrder(accepted)
    /\ SameSenderInOrder(delivered)

\* Two values sent one after the other by one task were received one after
\* the other; the second send had to suspend on the full channel and its
\* value went through slot 0 after the write index had wrapped.
C10_Witness ==
    \E i \in 1..(Len(delivered) - 1) :
        /\ delivered[i + 1] = delivered[i] + 1
        /\ sent[delivered[i]] = sent[delivered[i + 1]]
        /\ delivered[i + 1] \in suspended
        /\ i + 1 > NTASKS

(***************************************************************************)
(* C11.  The number of values stored in the channel (accepted and not yet  *)
(* received) is write - read and lies between 0 and the capacity NTASKS;   *)
(* a try_send, called directly or by a poll of send(), stores its value    *)
(* exactly when fewer than NTASKS values are stored and otherwise changes  *)
(* neither the cursors nor the buffer.                                     *)
(***************************************************************************)
Stored == Len(accepted) - Len(delivered)

\* A step that calls try_send directly ...
TrySendStep == Choosing /\ Len(sent') > Len(sent) /\ fut'[cur] = fut[cur]
\* ... and a step of a poll of send() that calls it.
PollSendStep ==
    /\ Polling("send")
    /\ accepted' # accepted \/ (fut'[cur].kind = "send" /\ (fut' # fut \/ pc' # pc))

C11_CapacityInv ==
    /\ Stored = write - read
    /\ 0 <= Stored /\ Stored <= NTASKS

C11_SendStep ==
    (TrySendStep \/ PollSendStep)
    => IF Stored < NTASKS
       THEN accepted' = Append(accepted, IF TrySendStep THEN NextMsg ELSE fut[cur].msg)
       ELSE accepted' = accepted /\ chanVars' = chanVars

C11_Capacity ==
    /\ []C11_CapacityInv
    /\ [][C11_SendStep]_vars

\* With nothing received, NTASKS try_send calls stored their values and
\* one more returned Err.
C11_Witness ==
    /\ Len(sent) = NTASKS + 1 /\ Len(accepted) = NTASKS /\ delivered = <<>>
    /\ suspended = {} /\ \A t \in Tasks : fut[t].kind # "send"

(***************************************************************************)
(* C12.  A poll of recv() on an empty channel returns Pending with the     *)
(* caller registered in the receiver registry (or traps because the        *)
(* registry is full) and receives nothing.  A step that stores a value     *)
(* signals the event latch and, if receivers are registered with their     *)
(* waker, takes the waker of one of them and sets its flag; the woken      *)
(* receiver is polled before a second round begins.  A poll of recv() on   *)
(* a channel that holds values de-registers the caller and returns the     *)
(* oldest stored value.  In the channel example the log is a prefix of     *)
(* B-recv, A-send, A-after-send, A-yield, B-42, DONE.                      *)
(***************************************************************************)
\* The tasks suspended in recv() whose waker is in the registry.
Receivers ==
    {t \in Live : fut[t].kind = "recv" /\ fut[t].key # NoKey
                     /\ wakers.recv.entries[fut[t].key] = t}
ExpectedChannel ==
    <<Line("B-recv"), Line("A-send"), Line("A-after-send"), Line("A-yield"),
      <<"B", FortyTwo>>, Line("DONE")>>

C12_RecvInv ==
    /\ \A t \in Live : fut[t].kind = "recv" /\ fut[t].key # NoKey =>
          wakers.recv.entries[fut[t].key] \in {t, Taken}
    /\ \A t \in Live : owed[t] /\ Alive => ready[t] /\ age[t] <= 1
    /\ prog.name = "channel" => IsPrefix(out, ExpectedChannel)

\* A step of a poll of recv() that finds the channel empty.
C12_EmptyStep ==
    (Polling("recv") /\ Stored = 0 /\ (fut' # fut \/ pc' # pc))
    => (/\ delivered' = delivered /\ chanVars' = chanVars
        /\ \/ pc' = "abort_insert"
           \/ /\ pc' # "poll"
              /\ fut'[cur].kind = "recv" /\ fut'[cur].key \in Keys
              /\ wakers'.recv.entries[fut'[cur].key] = cur)

\* A step that stores a value.
C12_SendStep ==
    (accepted' # accepted)
    => (/\ event'
        /\ Receivers # {} =>
              \E t \in Receivers :
                 /\ ready'[t] /\ wakers'.recv.entries[fut[t].key] = Taken
                 /\ \A u \in Tasks \ {t} : ready'[u] = ready[u])

\* A step of a poll of recv() that finds a value.
C12_ValueStep ==
    (Polling("recv") /\ Stored > 0 /\ (fut' # fut \/ pc' # pc))
    => (/\ delivered' = Append(delivered, accepted[Len(delivered) + 1])
        /\ fut'[cur] = NoFut /\ pc' = "poll"
        /\ fut[cur].key # NoKey => wakers'.recv.entries[fut[cur].key] = Vacant)

C12_RecvHandoff ==
    /\ []C12_RecvInv
    /\ [][C12_EmptyStep /\ C12_SendStep /\ C12_ValueStep]_vars

\* The channel example ran to DONE.
C12_Witness ==
    prog.name = "channel" /\ prog.n = 0 /\ out = ExpectedChannel

(***************************************************************************)
(* C13.  A poll of send(v) on a full channel returns Pending with the      *)
(* caller registered in the sender registry (or traps because the registry *)
(* is full), keeps v and stores nothing; a re-poll first removes the       *)
(* caller's old entry; a poll that finds room stores v and completes.  A   *)
(* step that receives a value signals the event latch and, if senders are  *)
(* registered with their waker, takes the waker of one and sets its flag.  *)
(* While there is room and a sender is suspended, some notified sender has *)
(* its flag set or is being polled; if every poll returns, a notified      *)
(* sender is polled again.  A value is stored at most once, not while its  *)
(* send is suspended, and exactly once when its send has completed.        *)
(***************************************************************************)
\* The tasks suspended in send() whose waker is in the registry ...
Senders ==
    {t \in Live : fut[t].kind = "send" /\ fut[t].key # NoKey
                     /\ wakers.send.entries[fut[t].key] = t}
\* ... and those whose waker a receive has taken.
NotifiedSenders ==
    {t \in Live : fut[t].kind = "send" /\ fut[t].key # NoKey
                     /\ wakers.send.entries[fut[t].key] = Taken}
Sending(v) == \E t \in Live : fut[t].kind = "send" /\ fut[t].msg = v

C13_SendInv ==
    /\ \A t \in Live : fut[t].kind = "send" /\ fut[t].key # NoKey =>
          wakers.send.entries[fut[t].key] \in {t, Taken}
    /\ \A t \in Live : fut[t].kind = "send" => Count(fut[t].msg, accepted) = 0
    /\ \A v \in Range(accepted) : Count(v, accepted) = 1
    /\ \A v \in suspended : Sending(v) \/ Count(v, accepted) = 1
    /\ Alive /\ InLoop /\ Stored < NTASKS /\ Senders \cup NotifiedSenders # {} =>
          \E t \in NotifiedSenders : ready[t] \/ (pc = "poll" /\ cur = t)

\* A step of a poll of send() that finds the channel full.
C13_FullStep ==
    (PollSendStep /\ Stored = NTASKS)
    => (/\ accepted' = accepted /\ chanVars' = chanVars
        /\ fut'[cur].kind = "send" /\ fut'[cur].msg = fut[cur].msg
        /\ (fut[cur].key # NoKey /\ fut'[cur].key # fut[cur].key)
              => wakers'.send.entries[fut[cur].key] = Vacant
        /\ \/ pc' = "abort_insert"
           \/ /\ pc' # "poll"
              /\ fut'[cur].key \in Keys
              /\ wakers'.send.entries[fut'[cur].key] = cur
              /\ Cardinality({k \in Keys : wakers'.send.entries[k] = cur}) = 1)

\* A step of a poll of send() that finds room.
C13_RoomStep ==
    (PollSendStep /\ Stored < NTASKS)
    => (/\ accepted' = Append(accepted, fut[cur].msg)
        /\ fut'[cur] = NoFut /\ pc' = "poll"
        /\ fut[cur].key # NoKey => wakers'.send.entries[fut[cur].key] = Vacant)

\* A step that receives a value.
C13_RecvStep ==
    (delivered' # delivered)
    => (/\ event'
        /\ Senders # {} =>
              \E t \in Senders :
                 /\ ready'[t] /\ wakers'.send.entries[fut[t].key] = Taken
                 /\ \A u \in Tasks \ {t} : ready'[u] = ready[u])

C13_BackPressure ==
    /\ []C13_SendInv
    /\ [][C13_FullStep /\ C13_RoomStep /\ C13_RecvStep]_vars
    /\ ([]<>(pc # "poll")) =>
          \A t \in Tasks :
             (InLoop /\ t \in NotifiedSenders) ~> ((pc = "poll" /\ cur = t) \/ ~InLoop)

\* With nothing received the channel had filled up; a further send()
\* suspended, was notified by a receive and has stored its value.
C13_Witness ==
    \E v \in suspended :
        /\ Len(accepted) = NTASKS + 1 /\ accepted[NTASKS + 1] = v
        /\ Len(delivered) \in 1..NTASKS /\ ~Sending(v)

(***************************************************************************)
(* C14.  Dropping a suspended send() or recv() cleans up after it: every   *)
(* entry of the sender (receiver) registry belongs to a send (recv) future *)
(* that is still suspended with that key, and a wake is never lost: while  *)
(* the channel holds a value and a receiver is suspended, some notified    *)
(* receiver has its flag set or is being polled.                           *)
(***************************************************************************)
NotifiedReceivers ==
    {t \in Live : fut[t].kind = "recv" /\ fut[t].key # NoKey
                     /\ wakers.recv.entries[fut[t].key] = Taken}
NoStaleEntry(w, kind) ==
    \A k \in Occupied(w) : \E t \in Live : fut[t].kind = kind /\ fut[t].key = k
NoLostRecvWake ==
    Alive /\ InLoop /\ Stored > 0 /\ Receivers \cup NotifiedReceivers # {} =>
        \E t \in NotifiedReceivers : ready[t] \/ (pc = "poll" /\ cur = t)

C14_DropCancels ==
    /\ NoStaleEntry(wakers.send, "send")
    /\ NoStaleEntry(wakers.recv, "recv")
    /\ NoLostRecvWake

(***************************************************************************)
(* C15.  Dropping a lock() future that is registered removes its entry     *)
(* from the mutex's registry.  If its waker was still in the entry,        *)
(* nothing else changes; if the waker had been taken by a guard release,   *)
(* the waker of one other registered waiter (if there is one) is taken     *)
(* and that waiter's flag is set.  Hence, while the mutex is free and a    *)
(* lock() future is registered, some registered waiter has been notified   *)
(* and has its flag set or is being polled.                                *)
(***************************************************************************)
\* The registered waiters whose waker is still in the registry.
LiveWaiters == {t \in Waiters : wakers.mutex.entries[fut[t].key] = t}

C15_CancelInv ==
    /\ NoStaleEntry(wakers.mutex, "lock")
    /\ Alive /\ ~locked /\ Waiters # {} =>
          \E t \in Waiters :
             /\ wakers.mutex.entries[fut[t].key] = Taken
             /\ ready[t] \/ (pc = "poll" /\ cur = t)
    /\ \A t \in Live : owed[t] /\ Alive => ready[t] /\ age[t] <= 1

\* A step in which the task being polled drops its registered lock() future.
LockDropStep ==
    Polling("lock") /\ fut[cur].key # NoKey /\ fut'[cur] = NoFut /\ guards' = guards

C15_DropStep ==
    LockDropStep
    => (/\ wakers'.mutex.entries[fut[cur].key] = Vacant
        /\ mutexVars' = <<locked, guards, mval, tried, cancelled'>>
        /\ IF wakers.mutex.entries[fut[cur].key] = cur \/ LiveWaiters \ {cur} = {}
           THEN /\ ready' = ready
                /\ \A t \in Waiters \ {cur} :
                      wakers'.mutex.entries[fut[t].key] = wakers.mutex.entries[fut[t].key]
           ELSE \E t \in LiveWaiters \ {cur} :
                /\ ready'[t] /\ wakers'.mutex.entries[fut[t].key] = Taken
                /\ \A u \in Tasks \ {t} : ready'[u] = ready[u]
                /\ \A u \in Waiters \ {cur, t} :
                      wakers'.mutex.entries[fut[u].key] = wakers.mutex.entries[fut[u].key])

C15_LockCancel ==
    /\ []C15_CancelInv
    /\ [][C15_DropStep]_vars

\* A waiter that had been notified by a guard release dropped its lock()
\* future; the notification went to another waiter, which is still
\* registered with its flag set, and the mutex is free.
C15_Witness ==
    /\ cancelled.notified /\ ~locked
    /\ \E t \in cancelled.woken :
          t \in Waiters /\ ready[t] /\ wakers.mutex.entries[fut[t].key] = Taken

(***************************************************************************)
(* C16.  One wake per transferred value: a step that stores a value while  *)
(* receivers are registered with their waker takes the waker of exactly    *)
(* one of them and sets its flag; every other receiver keeps its waker in  *)
(* the registry and its flag stays as it was, which is unset.  So N stores *)
(* notify N distinct receivers, as long as that many are registered.  The  *)
(* same holds for registered senders and steps that receive a value.       *)
(***************************************************************************)
C16_WaitersInv ==
    /\ \A t \in Receivers \cup Senders : ~ready[t]
    /\ Receivers \cap NotifiedReceivers = {} /\ Senders \cap NotifiedSenders = {}

C16_StoreStep ==
    (accepted' # accepted)
    => IF Receivers = {}
       THEN NotifiedReceivers' = NotifiedReceivers /\ ready' = ready
       ELSE \E t \in Receivers :
               /\ Receivers' = Receivers \ {t}
               /\ NotifiedReceivers' = NotifiedReceivers \cup {t}
               /\ ready' = [ready EXCEPT ![t] = TRUE]

C16_ReceiveStep ==
    (delivered' # delivered)
    => IF Senders = {}
       THEN NotifiedSenders' = NotifiedSenders /\ ready' = ready
       ELSE \E t \in Senders :
               /\ Senders' = Senders \ {t}
               /\ NotifiedSenders' = NotifiedSenders \cup {t}
               /\ ready' = [ready EXCEPT ![t] = TRUE]

C16_OneWakePerItem ==
    /\ []C16_WaitersInv
    /\ [][C16_StoreStep /\ C16_ReceiveStep]_vars

\* Two receivers were suspended on the empty channel and one value has
\* been stored: one receiver is notified with its flag set, the other is
\* still registered with its waker and its flag unset.
C16_Witness ==
    /\ Len(accepted) = 1 /\ delivered = <<>>
    /\ \E t \in NotifiedReceivers : \E u \in Receivers : ready[t] /\ ~ready[u]

\* Two receivers were suspended and two values have been stored before
\* either was polled again: both are notified.
C16_WitnessBoth ==
    /\ Len(accepted) = 2 /\ delivered = <<>>
    /\ Cardinality(NotifiedReceivers) = 2 /\ \A t \in NotifiedReceivers : ready[t]

(***************************************************************************)
(* C17.  A try_send on a full channel returns Err with the value it was    *)
(* given, a try_recv on an empty channel returns None, a try_lock on a     *)
(* held mutex returns None; and such a call changes neither the cursors,   *)
(* the buffer, the held flag, the guards, the protected value, a waker     *)
(* registry, a ready flag nor the event latch, and the caller continues.   *)
(***************************************************************************)
Untouched ==
    /\ chanVars' = chanVars /\ accepted' = accepted /\ delivered' = delivered
    /\ locked' = locked /\ guards' = guards /\ mval' = mval
    /\ wakers' = wakers /\ ready' = ready /\ event' = event
    /\ fut' = fut /\ pc' = pc /\ cur' = cur

\* A direct try_send call on a full channel.
C17_TrySendStep ==
    (TrySendStep /\ Stored = NTASKS)
    => (returned' = Returned("try_send", "Err", NextMsg) /\ Untouched)

\* A direct try_recv call: it returns None exactly on an empty channel.
C17_TryRecvStep ==
    (Choosing /\ returned' # returned /\ returned'.call = "try_recv")
    => (/\ returned'.res = "None" <=> Stored = 0
        /\ returned'.res = "None" => Untouched)

\* A direct try_lock call on a held mutex.
C17_TryLockStep ==
    (CanAct /\ locked /\ guards' = guards /\ fut' = fut /\ pc' = pc
        /\ <<tried', cancelled'>> # <<tried, cancelled>>)
    => (tried' = [held |-> TRUE, guard |-> FALSE] /\ Untouched)

C17_WitnessRecv ==
    /\ returned = Returned("try_recv", "None", 0)
    /\ Stored = 0 /\ Receivers # {} /\ accepted # <<>> /\ pc = "poll"

\* A try_lock call has just returned None on the held mutex while another
\* task is suspended in lock() with its waker registered and no task is
\* about to be polled for the mutex.
C17_WitnessLock ==
    /\ tried = [held |-> TRUE, guard |-> FALSE] /\ locked /\ Choosing
    /\ fut[cur] = NoFut /\ guards[cur] = 0 /\ LiveWaiters # {} /\ UsesMutex

(***************************************************************************)
(* C18.  in_block_on is true exactly while a block_on call is active: it   *)
(* is set by a call made from main() and cleared when that call returns.   *)
(* A call made while it is set (from the poll of the main computation or   *)
(* of a spawned task) traps: the step changes nothing but the position,    *)
(* and no scheduling loop is ever entered from inside a poll.              *)
(***************************************************************************)
C18_GuardInv ==
    /\ pc \in {"idle", "abort_spawn"} \/ in_block_on
    /\ pc = "idle" => ~in_block_on
    /\ pc = "abort_block_on" => in_block_on

C18_EnterStep ==
    /\ (pc' = "top" /\ pc # "top") => pc \in {"idle", "check", "wfe"}
    /\ (in_block_on' # in_block_on) =>
          \/ pc = "idle" /\ pc' = "top" /\ in_block_on'
          \/ pc = "ret" /\ pc' = "idle" /\ ~in_block_on'

C18_NestedStep ==
    (pc' = "abort_block_on" /\ pc # pc')
    => (/\ pc = "poll" /\ in_block_on
        /\ <<in_block_on, ntasks, ready, len, cur, task_woken, val, result>>'
              = <<in_block_on, ntasks, ready, len, cur, task_woken, val, result>>
        /\ fut' = fut /\ event' = event)

C18_ReentryGuard ==
    /\ []C18_GuardInv
    /\ [][C18_EnterStep /\ C18_NestedStep]_vars

\* A spawned task called block_on while being polled, in a second
\* block_on call of main(): the program trapped.
C18_Witness ==
    pc = "abort_block_on" /\ cur = NTASKS /\ in_block_on /\ result # 0

(***************************************************************************)
(* C19.  The task table holds at most NTASKS entries; its length changes   *)
(* only by growing by one; the entry added starts with its flag set and    *)
(* the entries already there are untouched: the future of an entry changes *)
(* only in a poll of that entry.  A spawn on a full table traps and leaves *)
(* the table as it was; no other spawn traps.                              *)
(***************************************************************************)
C19_TableInv == ntasks \in 0..NTASKS

C19_TableStep ==
    /\ ntasks' \in {ntasks, ntasks + 1}
    /\ \A t \in 1..ntasks : fut'[t] # fut[t] => pc = "poll" /\ cur = t
    /\ (ntasks' = ntasks + 1) =>
          /\ ready'[ntasks'] /\ fut'[ntasks'] = NoFut
          /\ \A t \in 0..ntasks : ready'[t] = ready[t] /\ fut'[t] = fut[t]
          /\ pc' = pc /\ cur' = cur
    /\ (pc' = "abort_spawn" /\ pc # pc') =>
          /\ ntasks = NTASKS /\ ntasks' = ntasks
          /\ ready' = ready /\ fut' = fut

C19_TableBound ==
    /\ []C19_TableInv
    /\ [][C19_TableStep]_vars

\* With NTASKS tasks in the table, one of them suspended in a future, a
\* further spawn made during a poll trapped.
C19_Witness ==
    /\ pc = "abort_spawn" /\ ntasks = NTASKS /\ in_block_on
    /\ \E t \in 1..NTASKS : fut[t].kind # "none"

(***************************************************************************)
(* C20.  The poll of a spawned task ends either with the task suspended in *)
(* a future or with a trap; block_on returns only from a poll of the main  *)
(* computation; a spawned computation that completes traps in that poll,   *)
(* leaving the table as it was; and after a trap nothing happens any       *)
(* more: no task is polled again.                                          *)
(***************************************************************************)
C20_PollEndStep ==
    (pc = "poll" /\ cur # 0 /\ pc' # "poll")
    => (\/ pc' \in Aborted
        \/ pc' \in {"load", "check"} /\ fut'[cur].kind # "none")

C20_CompleteStep ==
    (pc' = "abort_task" /\ pc # pc')
    => (/\ pc = "poll" /\ cur # 0 /\ fut[cur] = NoFut
        /\ ntasks' = ntasks /\ ready' = ready /\ fut' = fut)

C20_Immortal ==
    /\ [](pc = "ret" => cur = 0)
    /\ [][C20_PollEndStep /\ C20_CompleteStep /\ pc \notin Aborted]_vars

\* The computation of the second spawned task completed, after the task
\* had been suspended and polled again: the program trapped.
C20_Witness ==
    pc = "abort_task" /\ cur = 2 /\ ntasks = 2 /\ owed[2] = FALSE /\ len = 2
    /\ fut[1].kind # "none"

(***************************************************************************)
(* C21.  A poll of lock(), send() or recv() that registers its waker puts  *)
(* it under a key that was vacant and leaves every other entry of the      *)
(* registry as it was.  When the registry (without the caller's own        *)
(* previous entry, which the poll removes first) has no vacant key, the    *)
(* poll traps: no entry is overwritten, evicted or dropped, and the caller *)
(* does not end its poll suspended without an entry.                       *)
(***************************************************************************)
Registries == {"mutex", "send", "recv"}
KindOf(r) == IF r = "mutex" THEN "lock" ELSE r
IsFull(w) == \A k \in Keys : w.entries[k] # Vacant

\* A poll of a future on registry r ends with the future not completed.
EndsSuspended(r) ==
    /\ pc = "poll" /\ pc' # "poll"
    /\ fut[cur].kind = KindOf(r) /\ fut'[cur].kind = KindOf(r)

C21_RegisterStep ==
    \A r \in Registries :
      (EndsSuspended(r) /\ pc' \notin Aborted)
      => LET before == Unregistered(wakers[r])
             k == fut'[cur].key
         IN /\ k # NoKey
            /\ before.entries[k] = Vacant
            /\ wakers'[r].entries = [before.entries EXCEPT ![k] = cur]
            /\ wakers'[r].notifiable = before.notifiable + 1

C21_FullStep ==
    \A r \in Registries :
      /\ (EndsSuspended(r) /\ IsFull(Unregistered(wakers[r])))
         => pc' \in {"abort_insert", "abort_overflow"}
      /\ (EndsSuspended(r) /\ pc' = "abort_insert")
         => /\ IsFull(Unregistered(wakers[r]))
            /\ wakers'[r] = Unregistered(wakers[r])
            /\ \A q \in Registries \ {r} : wakers'[q] = wakers[q]
            /\ ready' = ready /\ fut'[cur].key = NoKey

C21_InsertOverflow ==
    /\ [](pc = "abort_insert" => fut[cur].kind \in {"lock", "send", "recv"})
    /\ [][C21_RegisterStep /\ C21_FullStep]_vars

\* A lock() polled with NTASKS other waiters in the mutex registry, one of
\* them with its waker still in place: the program trapped and the
\* registry is as it was.
C21_Witness ==
    /\ pc = "abort_insert" /\ fut[cur].kind = "lock"
    /\ IsFull(wakers.mutex)
    /\ \E k \in Keys : wakers.mutex.entries[k] >= 0
    /\ \A k \in Keys : wakers.mutex.entries[k] # cur

\* The same for recv().
C21_WitnessRecv ==
    /\ pc = "abort_insert" /\ fut[cur].kind = "recv"
    /\ IsFull(wakers.recv)
    /\ \A k \in Keys : wakers.recv.entries[k] \notin {cur, Taken}

(***************************************************************************)
(* C22.  A step of the environment (hardware event or interrupt handler)   *)
(* sets a task's ready flag only if that task's waker is installed in a    *)
(* driver whose interrupt was unmasked, and the step masks that interrupt; *)
(* a handler step that masks its interrupt found a waker installed, woke   *)
(* exactly the tasks whose wakers are installed in that driver and left    *)
(* the waker cells as they were; with no waker installed a handler changes *)
(* neither the flags nor the mask; and a masked interrupt is unmasked only *)
(* by a poll of a future of that driver that returns Pending (the first    *)
(* poll, or the re-arming after a spurious wake).                          *)
(***************************************************************************)
EnvStep ==
    <<pc, cur, fut, ntasks, in_block_on>>' = <<pc, cur, fut, ntasks, in_block_on>>

SerialWakers == {uarte.RX_WAKER, uarte.TX_WAKER} \ {NoTask}
TwimWakers == {twim.WAKER} \ {NoTask}

\* The handlers that ran in the step, told by the mask they set.
TimerHandled(t) == unmasked[t] /\ ~unmasked'[t]
SerialHandled == uarte.unmasked /\ ~uarte'.unmasked
TwimHandled == twim.unmasked /\ ~twim'.unmasked

C22_HandlerStep ==
    EnvStep =>
      /\ WAKER' = WAKER
      /\ <<uarte.RX_WAKER, uarte.TX_WAKER, twim.WAKER>>'
            = <<uarte.RX_WAKER, uarte.TX_WAKER, twim.WAKER>>
      /\ \A t \in Tasks :
            (ready'[t] # ready[t]) =>
               /\ ready'[t]
               /\ \/ WAKER[t] /\ TimerHandled(t)
                  \/ t \in SerialWakers /\ SerialHandled
                  \/ t \in TwimWakers /\ TwimHandled
      /\ \A t \in Tasks :
            TimerHandled(t) => WAKER[t] /\ expired[t] /\ ready'[t] /\ event'
      /\ SerialHandled =>
            /\ SerialWakers # {} /\ (uarte.endrx \/ uarte.endtx) /\ event'
            /\ \A t \in SerialWakers : ready'[t]
      /\ TwimHandled =>
            /\ (twim.stopped \/ twim.error) /\ event'
            /\ \A t \in TwimWakers : ready'[t]
            /\ TwimWakers # {}
      /\ \A t \in Tasks : ~unmasked[t] => ~unmasked'[t]
      /\ ~uarte.unmasked => ~uarte'.unmasked
      /\ ~twim.unmasked => ~twim'.unmasked

C22_RearmStep ==
    /\ \A t \in Tasks :
         (~unmasked[t] /\ unmasked'[t])
         => pc = "poll" /\ cur = t /\ fut[t].kind = "wait" /\ pc' # "poll"
            /\ fut'[t].kind = "wait" /\ WAKER'[t]
    /\ (~uarte.unmasked /\ uarte'.unmasked)
         => pc = "poll" /\ fut[cur].kind \in {"rx", "tx"}
            /\ \/ pc' # "poll" /\ fut'[cur].flag /\ uarte'[Cell(fut[cur].kind)] = cur
               \/ fut'[cur] = NoFut /\ uarte'[Other(fut[cur].kind)] # NoTask
    /\ (~twim.unmasked /\ twim'.unmasked)
         => pc = "poll" /\ fut[cur].kind = "twim" /\ pc' # "poll"
            /\ fut'[cur].flag /\ twim'.WAKER = cur

C22_WitnessTimer ==
    \E t \in Tasks : /\ fut[t].kind = "wait" /\ fut[t].flag /\ WAKER[t]
                      /\ expired[t] /\ ~unmasked[t] /\ ready[t]

\* The TWIM handler ran for the task whose transfer stopped.
C22_WitnessTwim ==
    /\ twim.WAKER = 0 /\ fut[0].kind = "twim" /\ fut[0].flag
    /\ twim.stopped /\ ~twim.error /\ ~twim.unmasked /\ ready[0]

(***************************************************************************)
(* C23.  No waker of a finished operation stays installed: a driver's      *)
(* waker cell holds a waker only while the future that installed it is in  *)
(* progress, so once a driver future has returned Ready after installing   *)
(* its waker the cell is empty, and the interrupt is masked unless the     *)
(* driver's other cell holds a waker.                                      *)
(***************************************************************************)
InProgress(t, k) == t # NoTask /\ fut[t].kind = k /\ fut[t].flag

TimerCleared ==
    \A t \in Tasks : (WAKER[t] \/ unmasked[t]) => InProgress(t, "wait")
SerialCleared ==
    /\ uarte.RX_WAKER # NoTask => InProgress(uarte.RX_WAKER, "rx")
    /\ uarte.TX_WAKER # NoTask => InProgress(uarte.TX_WAKER, "tx")
    /\ uarte.unmasked => SerialWakers # {}
TwimCleared ==
    (twim.WAKER # NoTask \/ twim.unmasked) => InProgress(twim.WAKER, "twim")

C23_DriverStateCleared == TimerCleared /\ SerialCleared /\ TwimCleared

\* The part of C23 that holds: the timer and the serial driver.
C23_TimerSerialCleared == TimerCleared /\ SerialCleared

(***************************************************************************)
(* C24.  The hart never stalls in wait_for_event while the latch is set,   *)
(* and a call of wait_for_event that returns leaves the latch clear: the   *)
(* call consumes the latch, so the next call, with no signal or interrupt  *)
(* in between, sleeps.                                                     *)
(***************************************************************************)
C24_LatchStep == (pc = "wfe" /\ pc' = "top") => ~event'

C24_EventLatch ==
    /\ [](pc = "wfi" => ~event)
    /\ [][C24_LatchStep]_vars

(***************************************************************************)
(* C25.  In each registry the notifiable count equals the number of        *)
(* entries that hold a waker, and is never negative.                       *)
(***************************************************************************)
LiveKeys(w) == {k \in Keys : w.entries[k] >= 0}

C25_CountInv ==
    \A r \in Registries :
      /\ wakers[r].notifiable = Cardinality(LiveKeys(wakers[r]))
      /\ wakers[r].notifiable >= 0

\* A notified lock() was dropped and cancel passed the notification on:
\* the registry holds one entry, without waker, and the count is 0.
C25_Witness ==
    /\ cancelled.notified /\ cancelled.woken # {}
    /\ wakers.mutex.notifiable = 0
    /\ Cardinality(Occupied(wakers.mutex)) = 1

\* The receiver registry holds a notified entry and an entry with its waker.
C25_WitnessRecv ==
    /\ wakers.recv.notifiable = 1
    /\ Cardinality(Occupied(wakers.recv)) = 2

(***************************************************************************)
(* C26.  notify_any, called when a guard is dropped, takes the waker of    *)
(* the first entry if and only if the registry is not empty and every      *)
(* entry still holds its waker; otherwise it leaves the registry and the   *)
(* flags unchanged.  Hence the mutex registry never holds more than one    *)
(* entry that was notified and not yet removed.                            *)
(***************************************************************************)
TakenKeys(w) == {k \in Keys : w.entries[k] = Taken}
FirstKey(S) == CHOOSE k \in S : \A j \in S : k <= j

C26_AnyStep ==
    (GuardsUpTo(guards', NTASKS) < TotalGuards)
    => LET w == wakers.mutex
       IN IF Occupied(w) # {} /\ TakenKeys(w) = {}
          THEN /\ wakers'.mutex = take(w, FirstKey(Occupied(w))).set
               /\ ready'[w.entries[FirstKey(Occupied(w))]]
          ELSE wakers'.mutex = w /\ ready' = ready

C26_InFlightInv == Cardinality(TakenKeys(wakers.mutex)) <= 1

C26_NotifyAny ==
    /\ []C26_InFlightInv
    /\ [][C26_AnyStep]_vars

(***************************************************************************)
(* C27.  notify_one, called when the channel stores a value (on the        *)
(* receiver registry) or hands one out (on the sender registry): if some   *)
(* entry holds a waker, the entry with the least such key keeps its place  *)
(* with the waker taken, its task's flag is set, the count drops by one,   *)
(* every other entry is unchanged and the call returns true; otherwise     *)
(* registry and flags are unchanged and it returns false.                  *)
(***************************************************************************)
NotifiedOne(w, after) ==
    IF LiveKeys(w) = {}
    THEN /\ after = w /\ ready' = ready
         /\ ~notify_one(w).notified
    ELSE LET k == FirstKey(LiveKeys(w))
         IN /\ after.entries = [w.entries EXCEPT ![k] = Taken]
            /\ after.notifiable = w.notifiable - 1
            /\ ready' = [ready EXCEPT ![w.entries[k]] = TRUE]
            /\ notify_one(w).notified

C27_NotifyStep ==
    /\ (accepted' # accepted) => NotifiedOne(wakers.recv, wakers'.recv)
    /\ (delivered' # delivered) => NotifiedOne(wakers.send, wakers'.send)

C27_NotifyOne == [][C27_NotifyStep]_vars

\* Two values were stored while two receivers waited: the second
\* notify_one passed the entry of key 0, already notified, and took the
\* waker of key 1.
C27_Witness ==
    /\ TakenKeys(wakers.recv) = Keys
    /\ Len(accepted) = 2 /\ delivered = <<>>
    /\ Cardinality({t \in Tasks : fut[t].kind = "recv" /\ ready[t]}) = 2

(***************************************************************************)
(* C28.  cancel(key) always removes the entry of key.  If the entry still  *)
(* held its waker, nothing else changes but the count, which drops by one, *)
(* and the call returns false.  If the entry had been notified, the first  *)
(* other entry that holds a waker loses it and keeps its key, that task's  *)
(* flag is set, the count drops by one and the call returns true; when no  *)
(* entry holds a waker, only the entry of key goes and the call returns    *)
(* false.  Checked on every drop of a registered lock() future.            *)
(***************************************************************************)
C28_CancelStep ==
    LockDropStep
    => LET w == wakers.mutex
           k == fut[cur].key
           r == cancel(w, k)
           others == LiveKeys(w) \ {k}
       IN /\ wakers'.mutex.entries[k] = Vacant
          /\ wakers'.recv = wakers.recv /\ wakers'.send = wakers.send
          /\ IF w.entries[k] >= 0
             THEN /\ wakers'.mutex.entries = [w.entries EXCEPT ![k] = Vacant]
                  /\ wakers'.mutex.notifiable = w.notifiable - 1
                  /\ ready' = ready
                  /\ ~r.notified
             ELSE IF others = {}
             THEN /\ wakers'.mutex.entries = [w.entries EXCEPT ![k] = Vacant]
                  /\ wakers'.mutex.notifiable = w.notifiable
                  /\ ready' = ready
                  /\ ~r.notified
             ELSE LET j == FirstKey(others)
                  IN /\ wakers'.mutex.entries =
                           [w.entries EXCEPT ![k] = Vacant, ![j] = Taken]
                     /\ wakers'.mutex.notifiable = w.notifiable - 1
                     /\ ready' = [ready EXCEPT ![w.entries[j]] = TRUE]
                     /\ r.notified

C28_WitnessNone ==
    /\ pc = "poll" /\ fut[cur] = NoFut
    /\ cancelled.notified /\ cancelled.woken = {}

\* The lock() future just dropped still held its waker while another waiter
\* held its own: that waiter's entry is as it was and its flag is not set.
C28_WitnessLive ==
    /\ pc = "poll" /\ fut[cur] = NoFut
    /\ cancelled.called /\ ~cancelled.notified
    /\ \E t \in Tasks \ {cur} :
          /\ fut[t].kind = "lock" /\ fut[t].key # NoKey
          /\ wakers.mutex.entries[fut[t].key] = t /\ ~ready[t]
          /\ wakers.mutex.notifiable = 1

(***************************************************************************)
(* C29.  Wakes are idempotent and reach the task's own flag.  Every waker  *)
(* a poll stores in the registry is the waker of the task being polled,    *)
(* and a registered future's entry holds the waker of its own task or      *)
(* none.  A step sets at most one flag, and only the flag of the task      *)
(* whose waker is woken: the task being polled when its yield wakes        *)
(* itself, the task whose waker a registry entry gave up, the task of a    *)
(* woken clone (nothing else of the program's state changes then), or the  *)
(* flag block_on and spawn initialise.  A set flag that is woken again     *)
(* stays set.  Dropping a waker (an entry that held one goes away without  *)
(* being notified) leaves every flag as it was.  A flag is cleared only by *)
(* the store that begins the poll of its task, a poll begins only with the *)
(* flag found set, and it begins with the flag clear and no wake counted:  *)
(* all the wakes since the previous poll are answered by this one poll.    *)
(***************************************************************************)
C29_OwnWaker ==
    /\ \A t \in Tasks :
          fut[t].kind = "lock" /\ fut[t].key # NoKey
          => wakers.mutex.entries[fut[t].key] \in {t, Taken}
    /\ \A k \in Keys :
          wakers.mutex.entries[k] >= 0
          => /\ fut[wakers.mutex.entries[k]].kind = "lock"
             /\ fut[wakers.mutex.entries[k]].key = k
    /\ \A t \in Tasks : wakes[t] > 0 /\ Alive => ready[t]

\* The tasks whose waker a registry entry gives up (take) in the step.
TakenFrom == {wakers.mutex.entries[k] :
                k \in {j \in Keys : /\ wakers.mutex.entries[j] >= 0
                                    /\ wakers'.mutex.entries[j] = Taken}}
\* The tasks whose waker is dropped with its entry in the step.
DroppedFrom == {wakers.mutex.entries[k] :
                  k \in {j \in Keys : /\ wakers.mutex.entries[j] >= 0
                                      /\ wakers'.mutex.entries[j] = Vacant}}

C29_StoreStep ==
    \A k \in Keys :
       wakers'.mutex.entries[k] >= 0 /\ wakers'.mutex.entries[k] # wakers.mutex.entries[k]
       => Running /\ wakers'.mutex.entries[k] = cur

C29_WakeStep ==
    /\ Cardinality({t \in Tasks : ready'[t] # ready[t]}) <= 1
    /\ \A t \in Tasks :
          /\ ~ready[t] /\ ready'[t]
             => \/ Polling("yield") /\ t = cur /\ TakenFrom = {}
                \/ TakenFrom = {t}
                \/ pc = "idle" /\ pc' = "top" /\ t = 0
                \/ ntasks' = ntasks + 1 /\ t = ntasks'
                \/ /\ t \in started
                   /\ UNCHANGED <<pc, in_block_on, ntasks, len, cur, task_woken, val,
                                  result, fut, devVars, syncVars>>
          /\ wakes'[t] > wakes[t] => ready'[t]
          /\ ready[t] /\ wakes'[t] >= wakes[t] => ready'[t]
    /\ TakenFrom # {} => \A t \in TakenFrom : ready'[t]
    /\ DroppedFrom # {} /\ TakenFrom = {} => ready' = ready

C29_PollStep ==
    \A t \in Tasks :
       /\ ready[t] /\ ~ready'[t] => pc = "store" /\ pc' = "poll" /\ cur' = t
       /\ pc # "poll" /\ pc' = "poll" /\ cur' = t
          => /\ wakes[t] > 0
             /\ ~ready'[t] /\ wakes'[t] = 0
             /\ \A u \in Tasks \ {t} : ready'[u] = ready[u] /\ wakes'[u] = wakes[u]

C29_IdempotentWake ==
    /\ []C29_OwnWaker
    /\ [][C29_StoreStep /\ C29_WakeStep /\ C29_PollStep]_vars

\* A task suspended in lock() was notified by the registry and woken again
\* through a clone of its waker before its poll: two wakes, one set flag.
C29_Witness ==
    \E t \in Live :
       /\ ~(Running /\ cur = t)
       /\ fut[t].kind = "lock" /\ fut[t].key # NoKey
       /\ wakers.mutex.entries[fut[t].key] = Taken
       /\ wakes[t] = 2 /\ ready[t]

\* The poll that answers them has begun: the flag is clear and no wake is
\* counted, while the notified entry is still in the registry.
C29_WitnessPolled ==
    /\ Polling("lock") /\ fut[cur].key # NoKey
    /\ wakers.mutex.entries[fut[cur].key] = Taken
    /\ ~ready[cur] /\ wakes[cur] = 0

(***************************************************************************)
(* C30.  Cursor wrap-around.  With the cursors close to the largest usize: *)
(* the difference of the cursors modulo 2^w is the number of values stored *)
(* and lies in 0..NTASKS; a direct try_recv call returns a value exactly   *)
(* when at least one value is stored; and a direct try_send call stores    *)
(* its value and returns Ok exactly when fewer than NTASKS are stored.     *)
(***************************************************************************)
C30_CursorInv ==
    /\ (write - read) % Word = Stored
    /\ 0 <= Stored /\ Stored <= NTASKS

C30_TryRecvStep ==
    (Choosing /\ returned' # returned /\ returned'.call = "try_recv")
    => (returned'.res = "Some" <=> Stored >= 1)

C30_TrySendStep ==
    TrySendStep
    => ((/\ accepted' = Append(accepted, NextMsg)
         /\ returned' = Returned("try_send", "Ok", 0)) <=> Stored < NTASKS)

C30_CursorWrap ==
    /\ []C30_CursorInv
    /\ [][C30_TryRecvStep /\ C30_TrySendStep]_vars

(***************************************************************************)
(* C31.  No CAS needed.  The RTC0 handler may run at any point of the      *)
(* scheduler loop and inside a poll.  Whenever it wakes a task the flag of *)
(* that task is set afterwards; a set flag is cleared only by the store    *)
(* that is directly followed by the poll of that task; a load that finds   *)
(* the flag set goes on to that store; and while the handler has woken a   *)
(* task (waker installed, interrupt masked by the handler) and no poll of  *)
(* the task has begun since, the flag is set, so the task is polled when   *)
(* it is examined next.                                                    *)
(***************************************************************************)
\* The handler wakes task t in this step.
HandlerWakes(t) ==
    /\ unmasked[t] /\ expired[t] /\ WAKER[t]
    /\ ~unmasked'[t] /\ fut' = fut /\ pc' = pc /\ cur' = cur

\* The handler has woken task t and no poll of t has begun since.
WokenByHandler(t) ==
    /\ fut[t].kind = "wait" /\ fut[t].flag /\ WAKER[t] /\ ~unmasked[t]
    /\ ~(Running /\ cur = t) \/ fut[t].msg = 1

C31_WokenInv ==
    \A t \in Live : WokenByHandler(t) /\ Alive => ready[t] /\ owed[t]

C31_WakeStep ==
    \A t \in Tasks :
       /\ HandlerWakes(t) => ready'[t] /\ \A u \in Tasks \ {t} : ready'[u] = ready[u]
       /\ ready[t] /\ ~ready'[t] => pc = "store" /\ cur = t /\ pc' = "poll" /\ cur' = t
       /\ pc = "load" /\ cur = t /\ ready[t] /\ pc' # pc => pc' = "store" /\ cur' = t

C31_NoCas ==
    /\ []C31_WokenInv
    /\ [][C31_WakeStep]_vars

\* The handler ran inside the poll of the task it wakes, after NVIC::unmask
\* and before the poll returned Pending: the flag is set during the poll.
C31_Witness ==
    /\ Running /\ fut[cur].kind = "wait" /\ fut[cur].msg = 1
    /\ WAKER[cur] /\ ~unmasked[cur]
    /\ ready[cur]

\* The handler ran while the scheduler was between the load and the store
\* of another task.
C31_WitnessStore ==
    /\ pc = "store"
    /\ \E t \in Live \ {cur} : WokenByHandler(t) /\ ready[t] /\ wakes[t] = 1

(***************************************************************************)
(* C32.  spawn may overlap with block_on.  The length snapshot changes     *)
(* only in the step after the poll of the main computation, where it takes *)
(* the length of the table.  A step that spawns leaves the tasks already   *)
(* in the table with their index, flag and future, and gives the new task  *)
(* a set flag.  A task spawned during a poll of the main computation is    *)
(* polled before the next round begins; a task spawned during the poll of  *)
(* a spawned task lies beyond the snapshot, is not polled in the round of  *)
(* its spawn and is polled before the round after the next begins.  Until  *)
(* its first poll its flag is set, and the executor is never in            *)
(* wait_for_event with a task that has not been polled.                    *)
(***************************************************************************)
\* Tasks that have not been polled since they were spawned.
Unpolled == {t \in 1..ntasks : born[t] # "none"}

C32_SpawnInv ==
    /\ \A t \in Unpolled : Alive => ready[t]
    /\ \A t \in Unpolled : born[t] = "task" /\ pc \in {"load", "store", "poll", "check"}
                              => t > len
    /\ pc = "wfe" => Unpolled = {}

C32_SnapshotStep ==
    /\ len' # len => pc = "len" /\ len' = ntasks /\ roundPolled \in {<<>>, <<0>>}
    /\ ntasks' # ntasks =>
          /\ ntasks' = ntasks + 1 /\ ready'[ntasks']
          /\ \A t \in 0..ntasks : ready'[t] = ready[t] /\ fut'[t] = fut[t]
          /\ pc = "poll" /\ cur # 0 => task_woken /\ ntasks' > len
    /\ \A t \in Tasks :
          pc # "poll" /\ pc' = "poll" /\ cur' = t /\ born[t] # "none"
          => born[t] \in {"idle", "main", "next"}

\* A round begins.
C32_RoundStep ==
    RoundStart => \A t \in 1..ntasks : born[t] \notin {"main", "next"}

\* ... in a block_on call whose main computation has been polled.
C32_LaterRoundStep ==
    RoundStart /\ mainPolled => \A t \in 1..ntasks : born[t] \notin {"main", "next"}

\* The claim as stated: whichever way the poll of the main computation ends.
C32_SpawnOverlapAlways ==
    /\ []C32_SpawnInv
    /\ [][C32_SnapshotStep /\ C32_RoundStep]_vars

\* The claim for rounds that run to their end: block_on has not returned
\* between the spawn and the beginning of the round.
C32_SpawnOverlap ==
    /\ []C32_SpawnInv
    /\ [][C32_SnapshotStep /\ C32_LaterRoundStep]_vars

\* A task spawned during the main computation's poll is about to be polled
\* for the first time, in the round of that poll, after the task before it.
C32_Witness ==
    /\ pc = "store" /\ cur = 2 /\ born[2] = "main" /\ born[1] = "none"
    /\ roundPolled = <<0, 1>>

\* A task spawned during a spawned task's poll waits for the next round.
C32_WitnessTask ==
    /\ pc = "check" /\ born[2] = "task" /\ len = 1 /\ ntasks = 2
    /\ roundPolled = <<1>>

\* ... and is polled in it.
C32_WitnessNext ==
    /\ pc = "store" /\ cur = 2 /\ born[2] = "next"

(***************************************************************************)
(* C33.  The RISC-V single-hart hook and interrupts.  A call of            *)
(* wait_for_event made while the flag of some task is set returns without  *)
(* sleeping, and the hart is never in wfi while the flag of a task is set: *)
(* a wake by an interrupt handler that ran after the last scan of the      *)
(* flags is acted upon without a further interrupt.                        *)
(***************************************************************************)
C33_EnterStep ==
    (pc = "wfe" /\ pc' # pc /\ \E t \in 0..ntasks : ready[t]) => pc' = "top"

C33_AsleepInv == pc = "wfi" => \A t \in 0..ntasks : ~ready[t]

C33_InterruptLatch ==
    /\ []C33_AsleepInv
    /\ [][C33_EnterStep]_vars

(***************************************************************************)
(* C34.  No waker outlives the main flag.  While no block_on call runs, no *)
(* entry of the channel and mutex registries and no waker cell of a driver *)
(* holds the waker of the main computation, and no step sets the main      *)
(* flag except the block_on call that creates it anew.                     *)
(***************************************************************************)
\* Some registry entry or driver cell holds the waker of task t.
WakerStored(t) ==
    \/ \E r \in Registries : \E k \in Keys : wakers[r].entries[k] = t
    \/ WAKER[t]
    \/ uarte.RX_WAKER = t \/ uarte.TX_WAKER = t
    \/ twim.WAKER = t

C34_ReturnedInv == pc = "idle" => ~WakerStored(0)

C34_DanglingStep ==
    (pc = "idle" /\ pc' = "idle") => ready'[0] = ready[0]

C34_NoDanglingWaker ==
    /\ []C34_ReturnedInv
    /\ [][C34_DanglingStep]_vars

(***************************************************************************)
(* C35.  Message conservation.  Every value the channel accepted is either *)
(* among the values delivered, once, or in the slot of exactly one cursor  *)
(* position from read up to write, and not both; nothing else is           *)
(* delivered.  The slots of the positions from read up to write are        *)
(* distinct; a slot outside them holds nothing that is still owed: it is   *)
(* uninitialised or its value has been delivered.  A step that delivers a  *)
(* value finds read below write and delivers the value of the slot at      *)
(* read, which was accepted and not delivered before.  The value of a      *)
(* suspended send is not in the channel, and once the send has completed   *)
(* it has been accepted exactly once.                                      *)
(***************************************************************************)
\* The cursor positions whose slot holds a value, and the value at one.
Positions == read..(write - 1)
At(i) == buffer[i % NTASKS]

C35_ConservationInv ==
    /\ \A v \in Range(accepted) :
          /\ Count(v, accepted) = 1 /\ Count(v, delivered) <= 1
          /\ Cardinality({i \in Positions : At(i) = v}) + Count(v, delivered) = 1
    /\ Range(delivered) \subseteq Range(accepted)
    /\ \A i \in Positions : \A j \in Positions : i # j => i % NTASKS # j % NTASKS
    /\ \A k \in 0..(NTASKS - 1) :
          (\A i \in Positions : i % NTASKS # k)
          => buffer[k] = 0 \/ buffer[k] \in Range(delivered)
    /\ \A t \in Live : fut[t].kind = "send" => fut[t].msg \notin Range(accepted)
    /\ \A v \in suspended : ~Sending(v) => Count(v, accepted) = 1

C35_DeliverStep ==
    delivered' # delivered
    => /\ read < write
       /\ delivered' = Append(delivered, At(read))
       /\ At(read) \in Range(accepted) \ Range(delivered)
       /\ accepted' = accepted

C35_AcceptStep ==
    accepted' # accepted
    => /\ Len(accepted') = Len(accepted) + 1
       /\ accepted' = Append(accepted, accepted'[Len(accepted')])
       /\ accepted'[Len(accepted')] \notin Range(accepted)
       /\ buffer'[write % NTASKS] = accepted'[Len(accepted')]
       /\ \A i \in Positions : buffer'[i % NTASKS] = At(i)
       /\ delivered' = delivered

C35_Conservation ==
    /\ []C35_ConservationInv
    /\ [][C35_DeliverStep /\ C35_AcceptStep]_vars

\* More values than the channel has slots went through it, sent by two
\* tasks; one of them came from a send that had suspended; all accepted
\* values but the one still stored have been delivered.
C35_Witness ==
    /\ prog.name = "free"
    /\ Len(accepted) = MaxMsgs /\ Len(delivered) = MaxMsgs - 1
    /\ Cardinality({sent[v] : v \in Range(accepted)}) >= 2
    /\ \E v \in suspended : v \in Range(delivered)
    /\ write - read = 1 /\ At(read) = accepted[MaxMsgs]

(***************************************************************************)
(* C36.  No sleeping waiters on a free mutex.  In every state in which no  *)
(* poll is running, if the mutex is not held and some lock() future is     *)
(* registered, then some registered waiter has no waker left in its entry  *)
(* (it has been notified) and the flag of its task is set.                 *)
(***************************************************************************)
\* The registered waiters that have been notified and whose flag is set.
AwakeWaiters ==
    {t \in Waiters : wakers.mutex.entries[fut[t].key] = Taken /\ ready[t]}

C36_NoSleepingWaiter ==
    Alive /\ ~Running /\ ~locked /\ Waiters # {} => AwakeWaiters # {}

\* Between polls the mutex is free with two registered waiters: one has
\* been notified and its flag is set, the other still holds its waker and
\* is not woken; the last try_lock call had taken the mutex in between.
C36_Witness ==
    /\ Alive /\ ~Running /\ ~locked
    /\ Cardinality(Waiters) = 2 /\ Cardinality(AwakeWaiters) = 1
    /\ \E t \in Waiters : wakers.mutex.entries[fut[t].key] = t /\ ~ready[t]

(***************************************************************************)
(* C37.  Registries do not leak entries.  For the mutex, sender and        *)
(* receiver registries the number of occupied keys never exceeds the       *)
(* number of futures suspended on that object, and a poll traps in insert  *)
(* only when NTASKS other futures are suspended on the object.             *)
(***************************************************************************)
\* The tasks with a future of registry r that has ended a poll suspended.
Suspended(r) ==
    {t \in Live : fut[t].kind = KindOf(r) /\ fut[t].key # NoKey}

C37_EntriesInv ==
    \A r \in Registries :
       Cardinality(Occupied(wakers[r])) <= Cardinality(Suspended(r))

C37_InsertStep ==
    \A r \in Registries :
       (EndsSuspended(r) /\ pc' = "abort_insert")
       => Cardinality(Suspended(r) \ {cur}) >= NTASKS

C37_NoLeak == []C37_EntriesInv /\ [][C37_InsertStep]_vars

(***************************************************************************)
(* C38.  No spurious polls.  A poll begins only from the store that        *)
(* follows a load which found the flag of the task set; the flag is false  *)
(* when the poll begins; and the task polled has been woken (or created)   *)
(* since its previous poll began.  A task that has not been woken since    *)
(* its previous poll began has its flag clear, and a load that finds the   *)
(* flag clear moves on to the next task without polling.                   *)
(***************************************************************************)
C38_FlagInv ==
    /\ pc = "store" => ready[cur] /\ task_woken /\ owed[cur]
    /\ \A t \in Live : Alive /\ ~owed[t] => ~ready[t]

C38_PollStep ==
    PollStart => /\ pc = "store" /\ cur' = cur
                 /\ ready[cur] /\ ~ready'[cur]
                 /\ owed[cur] /\ ~owed'[cur]

C38_SkipStep ==
    LoadStep /\ ~ready[cur] =>
        /\ pc' \in {"load", "len", "check"}
        /\ (pc' = "load" => cur' # cur)
        /\ ready' = ready /\ fut' = fut /\ task_woken' = task_woken

C38_NoSpuriousPoll ==
    []C38_FlagInv /\ [][C38_PollStep /\ C38_SkipStep]_vars

\* Task 2 is being polled in a round that examined the main task and
\* task 1, both polled earlier and not woken since, and skipped them.
C38_Witness ==
    /\ pc = "poll" /\ cur = 2 /\ roundPolled = <<2>>
    /\ {0, 1} \subseteq started
    /\ ~ready[0] /\ ~ready[1] /\ ~owed[0] /\ ~owed[1]

\* wait_for_event has returned and nothing was polled since; the round
\* skipped the main task and task 1, not woken since their previous polls,
\* and found the flag of task 2 set.
C38_WitnessSleep ==
    /\ pc = "store" /\ cur = 2 /\ roundPolled = <<>> /\ ~polledSinceWfe
    /\ {0, 1, 2} \subseteq started
    /\ ~ready[0] /\ ~ready[1] /\ ~owed[0] /\ ~owed[1]

====
